---- MODULE Spec2Model ----
(***************************************************************************)
(* State-machine model of the foosball statistics engine:                  *)
(*   MatchService.addSimpleMatchResult / deleteMatch  (match.service.ts)   *)
(*   StatsService.generateStats / batchUpdateStreaks  (stats service)      *)
(*   getTimePeriodIds / getISOWeekNumber              (core utils)         *)
(* The document store is modelled as three collections (matches, player    *)
(* lifetime documents, per-period bucket documents).  A transaction reads  *)
(* a snapshot, stages writes computed from it and commits atomically       *)
(* unless a document it read was written in between, in which case its     *)
(* body runs again.                                                        *)
(***************************************************************************)
EXTENDS Integers, Sequences, FiniteSets, TLC

\* ------------------------------------------------------------------ bounds
\* Number of match documents the callers may create in one behaviour.
MaxMatches == 2

\* Number of calls that start a transaction in one behaviour.
MaxCalls == 3

\* Number of store requests that fail (other than by a conflict) in one behaviour.
MaxFaults == 1

\* Number of calls a sequential caller completes in one behaviour.
MaxSeqCalls == 3

\* Attempts runTransaction makes before it gives up (Firestore default).
MaxAttempts == 5

\* ------------------------------------------------------- calendar helpers
\* A timestamp is a whole number of hours since 1970-01-01T00:00Z.
HoursPerDay == 24

\* floor(ts / 24): the UTC day number of a timestamp (Date#getUTC*).
UtcDay(ts) == ts \div HoursPerDay

\* The host-local day number of a timestamp (Date#getFullYear/getMonth/getDate).
LocalDay(ts, tzHours) == (ts + tzHours) \div HoursPerDay

\* The element of a one-element set: {e(x) : x \in {v}} computes v once.
Only(S) == CHOOSE x \in S : TRUE

\* Proleptic Gregorian date <<year, month, day>> of a day number (>= 0).
CivilFromDays(z0) ==
    Only({ Only({ Only({ Only({ Only({ Only({
        <<yoe + era * 400 + (IF mp < 10 THEN 0 ELSE 1),
          IF mp < 10 THEN mp + 3 ELSE mp - 9,
          doy - (153 * mp + 2) \div 5 + 1>> :
        mp  \in {(5 * doy + 2) \div 153} }) :
        doy \in {doe - (365 * yoe + yoe \div 4 - yoe \div 100)} }) :
        yoe \in {(doe - doe \div 1460 + doe \div 36524 - doe \div 146096) \div 365} }) :
        doe \in {z - era * 146097} }) :
        era \in {z \div 146097} }) :
        z   \in {z0 + 719468} })

\* Day number of a proleptic Gregorian date (Date.UTC(y, m, d) / 86400000).
DaysFromCivil(y0, m, d) ==
    Only({ Only({ Only({
        era * 146097 + (yoe * 365 + yoe \div 4 - yoe \div 100 + doy) - 719468 :
        doy \in {(153 * (IF m > 2 THEN m - 3 ELSE m + 9) + 2) \div 5 + d - 1},
        yoe \in {y - era * 400} }) :
        era \in {y \div 400} }) :
        y   \in {IF m <= 2 THEN y0 - 1 ELSE y0} })

\* Date#getUTCDay: 0 = Sunday .. 6 = Saturday (1970-01-01 was a Thursday).
UtcWeekday(day) == (day + 4) % 7

\* getISOWeekNumber(date): the week number of the host-local calendar date.
getISOWeekNumber(ts, tzHours) ==
    Only({ Only({ Only({
        ((d - yearStart) + 1 + 6) \div 7 :
        yearStart \in {DaysFromCivil(CivilFromDays(d)[1], 1, 1)} }) :
        d  \in {d0 + 4 - (IF UtcWeekday(d0) = 0 THEN 7 ELSE UtcWeekday(d0))} }) :
        d0 \in {LocalDay(ts, tzHours)} })

\* getTimePeriodIds(timestamp): daily id <<YYYY, MM, DD>>, weekly id <<YYYY, WW>>.
getTimePeriodIds(ts, tzHours) ==
    Only({ [daily  |-> <<c[1], c[2], c[3]>>,
            weekly |-> <<c[1], w>>] :
           c \in {CivilFromDays(UtcDay(ts))},
           w \in {getISOWeekNumber(ts, tzHours)} })

\* ------------------------------------------------------- score helpers
\* Array.prototype.includes on a team array.
Includes(arr, x) == \E i \in 1..Len(arr) : arr[i] = x

\* Math.max with the comparison dropped: the first score is taken as the leader's.
Max2FirstArgument(a, b) == a

\* Math.min with the branches swapped: it returns the larger score.
Min2Larger(a, b) == IF a <= b THEN b ELSE a

Max2(a, b) == IF a >= b THEN a ELSE b

Min2(a, b) == IF a <= b THEN a ELSE b

\* totoResult(finalScore): 1 = home won, 2 = away won, 0 = undecided.
totoResult(finalScore) ==
    IF finalScore[1] > finalScore[2] THEN 1
    ELSE IF finalScore[2] > finalScore[1] THEN 2
    ELSE 0

\* checkFlawlessVictory(finalScore): the loser scored 0 against 10 or 11.
checkFlawlessVictory(finalScore) ==
    /\ Min2(finalScore[1], finalScore[2]) = 0
    /\ Max2(finalScore[1], finalScore[2]) \in {10, 11}

\* checkSuckerPunch(finalScore): the winning score is exactly 11.
checkSuckerPunch(finalScore) ==
    /\ Max2(finalScore[1], finalScore[2]) = 11
    /\ finalScore[1] # finalScore[2]

\* checkIfDuplicateExists(ids): some id occurs twice in the array.
checkIfDuplicateExists(ids) ==
    \E i, j \in 1..Len(ids) : i < j /\ ids[i] = ids[j]

\* A validator that looks for duplicate players before it looks at the legality
\* of the score.
validateAddMatchResultInputDuplicateFirst(homeTeamIds, awayTeamIds, finalScore, dateOk) ==
    LET score1   == finalScore[1]
        score2   == finalScore[2]
        maxScore == Max2(score1, score2)
        minScore == Min2(score1, score2)
    IN  IF Len(homeTeamIds) = 0 THEN "homeEmpty"
        ELSE IF Len(awayTeamIds) = 0 THEN "awayEmpty"
        ELSE IF \/ Len(homeTeamIds) # Len(awayTeamIds)
                \/ Len(homeTeamIds) > 2
                \/ Len(homeTeamIds) < 1 THEN "teamSizes"
        ELSE IF score1 < 0 \/ score2 < 0 THEN "scoreFormat"
        ELSE IF score1 > 11 \/ score2 > 11 THEN "scoreExceeds11"
        ELSE IF checkIfDuplicateExists(homeTeamIds \o awayTeamIds) THEN "duplicatePlayer"
        ELSE IF maxScore >= 10 /\ maxScore = 10 /\ minScore = 10 THEN "tie10"
        ELSE IF maxScore >= 10 /\ maxScore = 11 /\ minScore = 11 THEN "tie11"
        ELSE IF maxScore >= 10 /\ maxScore = 11 /\ minScore > 10 THEN "elevenVsMoreThan10"
        ELSE IF maxScore >= 10 /\ maxScore = 10 /\ minScore >= 10 THEN "tenVsTenOrMore"
        ELSE IF ~dateOk THEN "matchDate"
        ELSE "ok"

\* A validator without the rules on ties at 10-10 and 11-11.
validateAddMatchResultInputTiesAllowed(homeTeamIds, awayTeamIds, finalScore, dateOk) ==
    LET score1   == finalScore[1]
        score2   == finalScore[2]
    IN  IF Len(homeTeamIds) = 0 THEN "homeEmpty"
        ELSE IF Len(awayTeamIds) = 0 THEN "awayEmpty"
        ELSE IF \/ Len(homeTeamIds) # Len(awayTeamIds)
                \/ Len(homeTeamIds) > 2
                \/ Len(homeTeamIds) < 1 THEN "teamSizes"
        ELSE IF score1 < 0 \/ score2 < 0 THEN "scoreFormat"
        ELSE IF score1 > 11 \/ score2 > 11 THEN "scoreExceeds11"
        ELSE IF checkIfDuplicateExists(homeTeamIds \o awayTeamIds) THEN "duplicatePlayer"
        ELSE IF ~dateOk THEN "matchDate"
        ELSE "ok"

\* validateAddMatchResultInput: "ok", or the name of the first rule that throws.
validateAddMatchResultInput(homeTeamIds, awayTeamIds, finalScore, dateOk) ==
    LET score1   == finalScore[1]
        score2   == finalScore[2]
        maxScore == Max2(score1, score2)
        minScore == Min2(score1, score2)
    IN  IF Len(homeTeamIds) = 0 THEN "homeEmpty"
        ELSE IF Len(awayTeamIds) = 0 THEN "awayEmpty"
        ELSE IF \/ Len(homeTeamIds) # Len(awayTeamIds)
                \/ Len(homeTeamIds) > 2
                \/ Len(homeTeamIds) < 1 THEN "teamSizes"
        ELSE IF score1 < 0 \/ score2 < 0 THEN "scoreFormat"
        ELSE IF score1 > 11 \/ score2 > 11 THEN "scoreExceeds11"
        ELSE IF maxScore >= 10 /\ maxScore = 10 /\ minScore = 10 THEN "tie10"
        ELSE IF maxScore >= 10 /\ maxScore = 11 /\ minScore = 11 THEN "tie11"
        ELSE IF maxScore >= 10 /\ maxScore = 11 /\ minScore > 10 THEN "elevenVsMoreThan10"
        ELSE IF maxScore >= 10 /\ maxScore = 10 /\ minScore >= 10 THEN "tenVsTenOrMore"
        ELSE IF checkIfDuplicateExists(homeTeamIds \o awayTeamIds) THEN "duplicatePlayer"
        ELSE IF ~dateOk THEN "matchDate"
        ELSE "ok"

\* ------------------------------------------------------ increment calculator
\* A field of the merge payload: FieldValue.increment(v), a plain value, or absent.
Inc(v) == [op |-> "inc", v |-> v]

\* A plain value that the merge leaves out of the document.
SetToDropped(v) == [op |-> "keep", v |-> 0]

\* A plain value in the payload: the merge overwrites the stored field with it.
SetTo(v) == [op |-> "set", v |-> v]

Keep == [op |-> "keep", v |-> 0]

\* IEntityMatchResult built in generateStats for one participant.
EntityMatchResult(playerId, matchResult) ==
    LET winners == IF matchResult.toto = 1 THEN matchResult.homeTeamIds
                   ELSE IF matchResult.toto = 2 THEN matchResult.awayTeamIds
                   ELSE <<>>
        losers  == IF matchResult.toto = 1 THEN matchResult.awayTeamIds
                   ELSE IF matchResult.toto = 2 THEN matchResult.homeTeamIds
                   ELSE <<>>
    IN  [entityKey      |-> playerId,
         didWin         |-> Includes(winners, playerId),
         didLose        |-> Includes(losers, playerId),
         hasHumiliation |-> checkFlawlessVictory(matchResult.finalScore),
         hasSuckerPunch |-> checkSuckerPunch(matchResult.finalScore)]

\* The home team's score taken as the goals of every participant's team.
GoalsForHomeTeam(entityResult, matchResult) == matchResult.finalScore[1]

\* Goals scored by the participant's own team.
GoalsFor(entityResult, matchResult) ==
    IF Includes(matchResult.homeTeamIds, entityResult.entityKey)
    THEN matchResult.finalScore[1] ELSE matchResult.finalScore[2]

\* Goals scored by the other team.
GoalsAgainst(entityResult, matchResult) ==
    IF Includes(matchResult.homeTeamIds, entityResult.entityKey)
    THEN matchResult.finalScore[2] ELSE matchResult.finalScore[1]

\* calculateMetrics that keeps the maxima itself: a win counts into highestWinStreak.
calculateMetricsKeepsMaxima(entityResult, matchResult, multiplier) ==
    LET win  == entityResult.didWin
        lose == ~entityResult.didWin /\ entityResult.didLose
    IN  [totalMatches           |-> Inc(multiplier * 1),
         totalGoalsFor          |-> Inc(GoalsFor(entityResult, matchResult) * multiplier),
         totalGoalsAgainst      |-> Inc(GoalsAgainst(entityResult, matchResult) * multiplier),
         totalWins              |-> IF win THEN Inc(multiplier * 1) ELSE Keep,
         totalLosses            |-> IF lose THEN Inc(multiplier * 1) ELSE Keep,
         winStreak              |-> IF win THEN Inc(multiplier * 1) ELSE SetTo(0),
         loseStreak             |-> IF lose THEN Inc(multiplier * 1) ELSE SetTo(0),
         totalFlawlessVictories |-> IF win /\ entityResult.hasHumiliation
                                    THEN Inc(multiplier * 1) ELSE Keep,
         totalSuckerpunches     |-> IF win /\ entityResult.hasSuckerPunch
                                    THEN Inc(multiplier * 1) ELSE Keep,
         totalHumiliations      |-> IF lose /\ entityResult.hasHumiliation
                                    THEN Inc(multiplier * 1) ELSE Keep,
         totalKnockouts         |-> IF lose /\ entityResult.hasSuckerPunch
                                    THEN Inc(multiplier * 1) ELSE Keep,
         highestWinStreak       |-> IF win THEN Inc(multiplier * 1) ELSE Keep,
         highestLoseStreak      |-> Keep]

\* calculateMetrics: the merge payload for the player's lifetime document.
calculateMetrics(entityResult, matchResult, multiplier) ==
    LET win  == entityResult.didWin
        lose == ~entityResult.didWin /\ entityResult.didLose
    IN  [totalMatches           |-> Inc(multiplier * 1),
         totalGoalsFor          |-> Inc(GoalsFor(entityResult, matchResult) * multiplier),
         totalGoalsAgainst      |-> Inc(GoalsAgainst(entityResult, matchResult) * multiplier),
         totalWins              |-> IF win THEN Inc(multiplier * 1) ELSE Keep,
         totalLosses            |-> IF lose THEN Inc(multiplier * 1) ELSE Keep,
         winStreak              |-> IF win THEN Inc(multiplier * 1) ELSE SetTo(0),
         loseStreak             |-> IF lose THEN Inc(multiplier * 1) ELSE SetTo(0),
         totalFlawlessVictories |-> IF win /\ entityResult.hasHumiliation
                                    THEN Inc(multiplier * 1) ELSE Keep,
         totalSuckerpunches     |-> IF win /\ entityResult.hasSuckerPunch
                                    THEN Inc(multiplier * 1) ELSE Keep,
         totalHumiliations      |-> IF lose /\ entityResult.hasHumiliation
                                    THEN Inc(multiplier * 1) ELSE Keep,
         totalKnockouts         |-> IF lose /\ entityResult.hasSuckerPunch
                                    THEN Inc(multiplier * 1) ELSE Keep,
         highestWinStreak       |-> Keep,
         highestLoseStreak      |-> Keep]

\* calculateTimeBasedIncrements with the goal counts not multiplied by the
\* multiplier: a reversal would add the goals once more.
calculateTimeBasedIncrementsUnsigned(entityResult, matchResult, multiplier) ==
    [matchesPlayed         |-> 1 * multiplier,
     wins                  |-> IF entityResult.didWin THEN 1 * multiplier ELSE 0,
     losses                |-> IF ~entityResult.didWin /\ entityResult.didLose
                               THEN 1 * multiplier ELSE 0,
     goalsFor              |-> GoalsFor(entityResult, matchResult),
     goalsAgainst          |-> GoalsAgainst(entityResult, matchResult),
     humiliationsInflicted |-> 0,
     humiliationsSuffered  |-> 0,
     suckerPunchesDealt    |-> 0,
     suckerPunchesReceived |-> 0]

\* calculateTimeBasedIncrements: the nine bucket increments.
calculateTimeBasedIncrements(entityResult, matchResult, multiplier) ==
    LET win  == entityResult.didWin
        lose == ~entityResult.didWin /\ entityResult.didLose
    IN  [matchesPlayed         |-> 1 * multiplier,
         wins                  |-> IF win THEN 1 * multiplier ELSE 0,
         losses                |-> IF lose THEN 1 * multiplier ELSE 0,
         goalsFor              |-> GoalsFor(entityResult, matchResult) * multiplier,
         goalsAgainst          |-> GoalsAgainst(entityResult, matchResult) * multiplier,
         humiliationsInflicted |-> IF win /\ entityResult.hasHumiliation
                                   THEN 1 * multiplier ELSE 0,
         humiliationsSuffered  |-> IF lose /\ entityResult.hasHumiliation
                                   THEN 1 * multiplier ELSE 0,
         suckerPunchesDealt    |-> IF win /\ entityResult.hasSuckerPunch
                                   THEN 1 * multiplier ELSE 0,
         suckerPunchesReceived |-> IF lose /\ entityResult.hasSuckerPunch
                                   THEN 1 * multiplier ELSE 0]

\* ------------------------------------------------------------ model inputs
\* Player documents that exist in the players collection.
Players == {"a", "b", "c", "d"}

\* Callers that run addSimpleMatchResult / deleteMatch concurrently.
Procs == {1, 2}

\* Ids of the match documents already in the log in the scenario specification.
PriorIds == {-3, -2, -1, 0}

\* Document ids of the matches collection: pre-existing ones and those doc() hands out.
MatchIds == PriorIds \cup (1..MaxMatches)

\* Timestamps callers pass as matchDate: 2024-12-31T23:00Z and 2025-01-01T10:00Z.
MatchDates == {DaysFromCivil(2024, 12, 31) * HoursPerDay + 23,
               DaysFromCivil(2025, 1, 1) * HoursPerDay + 10}

\* matchDates of the match documents a store can hold: those, and
\* 2025-01-02T10:00Z, a day of the same week as 2025-01-01.
StoredDates == MatchDates \cup {DaysFromCivil(2025, 1, 2) * HoursPerDay + 10}

\* A matchDate string that new Date() cannot parse (getTime() is NaN).
NotADate == -1

\* Lines 268-277: the matchDate parses.
DateParses(matchDate) == matchDate # NotADate

\* The matchDate concurrent callers pass: one timestamp (they all play in the
\* same day and week), or a string that is no date.
DateInputs == {DaysFromCivil(2024, 12, 31) * HoursPerDay + 23, NotADate}

\* Offsets (hours east of UTC) of the host's local time zone.
HostTzOffsets == {0}

\* The wall clock when the service starts: 2025-01-01T00:00Z.
ClockStart == DaysFromCivil(2025, 1, 1) * HoursPerDay

\* Teams concurrent callers pass: 1v1 pairings that share one or both players
\* ("a" plays at home in one and away in the other), and one that names the same
\* player on both sides.
TeamInputs == {<<<<"a">>, <<"b">>>>, <<<<"c">>, <<"a">>>>, <<<<"a">>, <<"a">>>>}

\* Final scores concurrent callers pass: an 11-0 away win, an undecided score and
\* a 10-10.
ScoreInputs == {<<0, 11>>, <<5, 5>>, <<10, 10>>}

\* ------------------------------------------------------------- documents
\* A match document that does not exist.
NoMatch == [exists |-> FALSE, matchDate |-> 0, finalScore |-> <<0, 0>>, toto |-> 0,
            homeTeamIds |-> <<>>, awayTeamIds |-> <<>>]

\* newMatchData with the home team's ids stored for the away team as well.
NewMatchDataHomeTwice(homeTeamIds, awayTeamIds, finalScore, matchDate) ==
    [exists |-> TRUE, matchDate |-> matchDate, finalScore |-> finalScore,
     toto |-> totoResult(finalScore),
     homeTeamIds |-> homeTeamIds, awayTeamIds |-> homeTeamIds]

\* newMatchData of addSimpleMatchResult.
NewMatchData(homeTeamIds, awayTeamIds, finalScore, matchDate) ==
    [exists |-> TRUE, matchDate |-> matchDate, finalScore |-> finalScore,
     toto |-> totoResult(finalScore),
     homeTeamIds |-> homeTeamIds, awayTeamIds |-> awayTeamIds]

\* A player document none of whose statistics fields has been written.
NewPlayerDoc ==
    [totalMatches |-> 0, totalWins |-> 0, totalLosses |-> 0, totalGoalsFor |-> 0,
     totalGoalsAgainst |-> 0, totalFlawlessVictories |-> 0, totalHumiliations |-> 0,
     totalSuckerpunches |-> 0, totalKnockouts |-> 0, winStreak |-> 0, loseStreak |-> 0,
     highestWinStreak |-> 0, highestLoseStreak |-> 0]

\* The nine counters of a bucket document (ITimeBasedPlayerStatsIncrements).
BucketCounters == {"matchesPlayed", "wins", "losses", "goalsFor", "goalsAgainst",
                   "humiliationsInflicted", "humiliationsSuffered",
                   "suckerPunchesDealt", "suckerPunchesReceived"}

\* The nine lifetime counters (streaks and maxima are not counters).
LifetimeCounters == {"totalMatches", "totalWins", "totalLosses", "totalGoalsFor",
                     "totalGoalsAgainst", "totalFlawlessVictories", "totalHumiliations",
                     "totalSuckerpunches", "totalKnockouts"}

\* A bucket document that does not exist (snapshot.exists = false).
AbsentBucket ==
    [exists |-> FALSE, playerId |-> "", timeframeId |-> <<>>, periodType |-> "",
     matchesPlayed |-> 0, wins |-> 0, losses |-> 0, goalsFor |-> 0, goalsAgainst |-> 0,
     humiliationsInflicted |-> 0, humiliationsSuffered |-> 0,
     suckerPunchesDealt |-> 0, suckerPunchesReceived |-> 0,
     firstActivityAt |-> 0, lastUpdatedAt |-> 0]

\* Path players/{playerId}/stats/{periodType}/records/{timeframeId}.
BucketRef(playerId, periodType, timeframeId) == <<playerId, periodType, timeframeId>>

\* Every bucket path the modelled callers can touch.
AllBucketRefs ==
    {BucketRef(p, "daily", getTimePeriodIds(t, z).daily) :
        p \in Players, t \in StoredDates, z \in HostTzOffsets}
    \cup
    {BucketRef(p, "weekly", getTimePeriodIds(t, z).weekly) :
        p \in Players, t \in StoredDates, z \in HostTzOffsets}

\* updateTimeBasedStatsDoc that removes a bucket whose matchesPlayed falls to 0.
updateTimeBasedStatsDocDropsEmpty(statsDocSnapshot, playerId, timeframeId, periodType, increments, timestamp) ==
    IF statsDocSnapshot.exists
    THEN IF statsDocSnapshot.matchesPlayed + increments.matchesPlayed = 0
         THEN AbsentBucket
         ELSE [statsDocSnapshot EXCEPT
                 !.matchesPlayed = @ + increments.matchesPlayed,
                 !.wins = @ + increments.wins,
                 !.losses = @ + increments.losses,
                 !.goalsFor = @ + increments.goalsFor,
                 !.goalsAgainst = @ + increments.goalsAgainst,
                 !.humiliationsInflicted = @ + increments.humiliationsInflicted,
                 !.humiliationsSuffered = @ + increments.humiliationsSuffered,
                 !.suckerPunchesDealt = @ + increments.suckerPunchesDealt,
                 !.suckerPunchesReceived = @ + increments.suckerPunchesReceived,
                 !.lastUpdatedAt = timestamp]
    ELSE [exists |-> TRUE, playerId |-> playerId, timeframeId |-> timeframeId,
          periodType |-> periodType,
          matchesPlayed |-> increments.matchesPlayed,
          wins |-> increments.wins,
          losses |-> increments.losses,
          goalsFor |-> increments.goalsFor,
          goalsAgainst |-> increments.goalsAgainst,
          humiliationsInflicted |-> increments.humiliationsInflicted,
          humiliationsSuffered |-> increments.humiliationsSuffered,
          suckerPunchesDealt |-> increments.suckerPunchesDealt,
          suckerPunchesReceived |-> increments.suckerPunchesReceived,
          firstActivityAt |-> timestamp,
          lastUpdatedAt |-> timestamp]

\* updateTimeBasedStatsDoc that stamps firstActivityAt on every write.
updateTimeBasedStatsDocRestamps(statsDocSnapshot, playerId, timeframeId, periodType, increments, timestamp) ==
    [exists |-> TRUE, playerId |-> playerId, timeframeId |-> timeframeId,
     periodType |-> periodType,
     matchesPlayed |-> statsDocSnapshot.matchesPlayed + increments.matchesPlayed,
     wins |-> statsDocSnapshot.wins + increments.wins,
     losses |-> statsDocSnapshot.losses + increments.losses,
     goalsFor |-> statsDocSnapshot.goalsFor + increments.goalsFor,
     goalsAgainst |-> statsDocSnapshot.goalsAgainst + increments.goalsAgainst,
     humiliationsInflicted |-> statsDocSnapshot.humiliationsInflicted
                               + increments.humiliationsInflicted,
     humiliationsSuffered |-> statsDocSnapshot.humiliationsSuffered
                              + increments.humiliationsSuffered,
     suckerPunchesDealt |-> statsDocSnapshot.suckerPunchesDealt
                            + increments.suckerPunchesDealt,
     suckerPunchesReceived |-> statsDocSnapshot.suckerPunchesReceived
                               + increments.suckerPunchesReceived,
     firstActivityAt |-> timestamp,
     lastUpdatedAt |-> timestamp]

\* updateTimeBasedStatsDoc: the document set on the bucket, from the snapshot read.
updateTimeBasedStatsDoc(statsDocSnapshot, playerId, timeframeId, periodType, increments, timestamp) ==
    IF statsDocSnapshot.exists
    THEN [statsDocSnapshot EXCEPT
            !.matchesPlayed = @ + increments.matchesPlayed,
            !.wins = @ + increments.wins,
            !.losses = @ + increments.losses,
            !.goalsFor = @ + increments.goalsFor,
            !.goalsAgainst = @ + increments.goalsAgainst,
            !.humiliationsInflicted = @ + increments.humiliationsInflicted,
            !.humiliationsSuffered = @ + increments.humiliationsSuffered,
            !.suckerPunchesDealt = @ + increments.suckerPunchesDealt,
            !.suckerPunchesReceived = @ + increments.suckerPunchesReceived,
            !.lastUpdatedAt = timestamp]
    ELSE [exists |-> TRUE, playerId |-> playerId, timeframeId |-> timeframeId,
          periodType |-> periodType,
          matchesPlayed |-> increments.matchesPlayed,
          wins |-> increments.wins,
          losses |-> increments.losses,
          goalsFor |-> increments.goalsFor,
          goalsAgainst |-> increments.goalsAgainst,
          humiliationsInflicted |-> increments.humiliationsInflicted,
          humiliationsSuffered |-> increments.humiliationsSuffered,
          suckerPunchesDealt |-> increments.suckerPunchesDealt,
          suckerPunchesReceived |-> increments.suckerPunchesReceived,
          firstActivityAt |-> timestamp,
          lastUpdatedAt |-> timestamp]

\* transaction.set(ref, data, {merge: true}) with FieldValue.increment transforms,
\* resolved against the stored document when the write is applied.
MergeSet(doc, data) ==
    [f \in DOMAIN doc |->
        IF data[f].op = "inc" THEN doc[f] + data[f].v
        ELSE IF data[f].op = "set" THEN data[f].v
        ELSE doc[f]]

\* ------------------------------------------------------------ generateStats
\* The wall clock new Date() reads, in hours since the epoch.
VARIABLE now

\* allPlayerIds of generateStats: home team followed by away team.
AllPlayerIds(matchResult) == matchResult.homeTeamIds \o matchResult.awayTeamIds

\* The set of elements of an array.
Elems(arr) == {arr[i] : i \in 1..Len(arr)}

\* refsToRead: the daily and weekly bucket of every participant (read phase).
refsToRead(matchResult, tzHours) ==
    LET ids == getTimePeriodIds(matchResult.matchDate, tzHours)
    IN  {BucketRef(p, "daily", ids.daily) : p \in Elems(AllPlayerIds(matchResult))}
        \cup
        {BucketRef(p, "weekly", ids.weekly) : p \in Elems(AllPlayerIds(matchResult))}

\* The three writes generateStats stages for one participant (write phase); the
\* bucket documents are stamped with nowISO, the wall clock of the call.
PlayerWrites(playerId, snapshotMap, matchResult, multiplier, tzHours) ==
    Only({ Only({ << [kind |-> "mergePlayer", ref |-> playerId,
                      data |-> calculateMetrics(er, matchResult, multiplier)],
                     [kind |-> "setBucket",
                      ref  |-> BucketRef(playerId, "daily", ids.daily),
                      data |-> updateTimeBasedStatsDoc(
                                   snapshotMap[BucketRef(playerId, "daily", ids.daily)],
                                   playerId, ids.daily, "daily", incs, now)],
                     [kind |-> "setBucket",
                      ref  |-> BucketRef(playerId, "weekly", ids.weekly),
                      data |-> updateTimeBasedStatsDoc(
                                   snapshotMap[BucketRef(playerId, "weekly", ids.weekly)],
                                   playerId, ids.weekly, "weekly", incs, now)] >> :
                  incs \in {calculateTimeBasedIncrements(er, matchResult, multiplier)} }) :
           er  \in {EntityMatchResult(playerId, matchResult)},
           ids \in {getTimePeriodIds(matchResult.matchDate, tzHours)} })

RECURSIVE WritePhase(_, _, _, _, _)
\* The write-phase loop over allPlayerIds[i..], in staging order.
WritePhase(i, snapshotMap, matchResult, multiplier, tzHours) ==
    IF i > Len(AllPlayerIds(matchResult)) THEN <<>>
    ELSE PlayerWrites(AllPlayerIds(matchResult)[i], snapshotMap, matchResult,
                      multiplier, tzHours)
         \o WritePhase(i + 1, snapshotMap, matchResult, multiplier, tzHours)

\* generateStats that stages the writes of the first participant only.
generateStatsFirstOnly(snapshotMap, matchResult, multiplier, tzHours) ==
    PlayerWrites(AllPlayerIds(matchResult)[1], snapshotMap, matchResult,
                 multiplier, tzHours)

\* generateStats(transaction, matchResult, {multiplier}): the writes it stages.
generateStats(snapshotMap, matchResult, multiplier, tzHours) ==
    WritePhase(1, snapshotMap, matchResult, multiplier, tzHours)

\* ------------------------------------------------------------- the store
\* One staged write applied to the store [matches, players, buckets].
ApplyWrite(store, w) ==
    IF w.kind = "mergePlayer"
    THEN [store EXCEPT !.players[w.ref] = MergeSet(@, w.data)]
    ELSE IF w.kind = "setBucket"
    THEN [store EXCEPT !.buckets[w.ref] = w.data]
    ELSE IF w.kind = "setMatch"
    THEN [store EXCEPT !.matches[w.ref] = w.data]
    ELSE [store EXCEPT !.matches[w.ref] = NoMatch]

RECURSIVE ApplyFrom(_, _, _)
\* The staged writes ws[i..] applied in order.
ApplyFrom(store, ws, i) ==
    IF i > Len(ws) THEN store
    ELSE ApplyFrom(ApplyWrite(store, ws[i]), ws, i + 1)

\* The atomic commit of a sequence of staged writes, in order.
ApplyWrites(store, ws) == Only({ApplyFrom(store, w, 1) : w \in {ws}})

\* No backfillTimeStats request has been received: the locals of the handler
\* before its first statement.
NoJob ==
    [phase |-> "idle", runs |-> 0, entry |-> 0,
     startDateIso |-> 0, endDateIso |-> 0, nowISO |-> 0,
     aggregates |-> [k \in AllBucketRefs |-> AbsentBucket], order |-> <<>>,
     totalMatchesProcessed |-> 0, lastMatchSnapshot |-> <<>>,
     queue |-> <<>>, totalWrites |-> 0, rejected |-> FALSE, dailyWrites |-> 0,
     status |-> 0, message |-> <<>>]

\* ------------------------------------------------------------- the state
VARIABLES
    matches,     \* matches collection: id -> match document or NoMatch
    players,     \* players collection: id -> lifetime statistics document
    buckets,     \* daily / weekly records: path -> bucket document or AbsentBucket
    hostTz,      \* time-zone offset of the host the services run on
    nextId,      \* next id db.collection(matches).doc() generates
    pc,          \* per caller: where its call stands
    call,        \* per caller: the call's arguments and locals
    tx,          \* per caller: the running transaction attempt
    streakSnap,  \* per caller: playerSnapshots read by batchUpdateStreaks
    applied,     \* history: (participant, document) pairs holding a match's increments
    streakErr,   \* history: some streak batch commit has failed
    calls,       \* history: number of calls that have started a transaction
    faults,      \* history: number of store requests that have failed
    done,        \* history: the calls a sequential caller has completed, in order,
                 \* each with the store it started from
    peak,        \* history: per player, the highest winStreak and loseStreak that
                 \* any committed state has held
    job          \* the backfillTimeStats request in progress: its locals and response

vars == <<matches, players, buckets, hostTz, nextId, pc, call, tx, streakSnap,
          applied, streakErr, calls, faults, done, peak, now, job>>

store == [matches |-> matches, players |-> players, buckets |-> buckets]

\* Locals of a caller that is not inside a call.
NoCall == [op |-> "none", matchId |-> 0, match |-> NoMatch, allPlayerIds |-> <<>>,
           why |-> ""]

\* No transaction attempt.
NoTx == [attempt |-> 0, reads |-> {}, snap |-> <<>>, match |-> NoMatch,
         ops |-> <<>>, stale |-> FALSE, status |-> "none"]

\* Position of a player id in the default Array.prototype.sort order.
PlayerRank(x) == IF x = "a" THEN 1 ELSE IF x = "b" THEN 2 ELSE IF x = "c" THEN 3 ELSE 4

\* Position of ids[i] in the sorted array: the entries that sort before it.
SortedPos(ids, i) ==
    1 + Cardinality({j \in 1..Len(ids) :
                        \/ PlayerRank(ids[j]) < PlayerRank(ids[i])
                        \/ PlayerRank(ids[j]) = PlayerRank(ids[i]) /\ j < i})

\* [...ids].sort(): ascending, duplicates kept.
SortIds(ids) ==
    Only({ [k \in 1..Len(a) |-> a[CHOOSE i \in 1..Len(a) : SortedPos(a, i) = k]] :
           a \in {ids} })

\* State after construction: an empty log, player documents without statistics.
Init ==
    /\ matches = [i \in MatchIds |-> NoMatch]
    /\ players = [x \in Players |-> NewPlayerDoc]
    /\ buckets = [k \in AllBucketRefs |-> AbsentBucket]
    /\ hostTz \in HostTzOffsets
    /\ nextId = 1
    /\ pc = [p \in Procs |-> "idle"]
    /\ call = [p \in Procs |-> NoCall]
    /\ tx = [p \in Procs |-> NoTx]
    /\ streakSnap = [p \in Procs |-> <<>>]
    /\ applied = [i \in MatchIds |-> {}]
    /\ streakErr = FALSE
    /\ calls = 0
    /\ faults = 0
    /\ done = <<>>
    /\ peak = [x \in Players |-> [win |-> 0, lose |-> 0]]
    /\ now = ClockStart
    /\ job = NoJob

\* ---------------------------------------------------------- transactions
\* What is left of a caller's locals once its call has returned or thrown.
Ended(c, why) == [NoCall EXCEPT !.op = c.op, !.matchId = c.matchId, !.why = why]

\* A fresh attempt of runTransaction's body: the reads made, their snapshot and
\* the operations the body issued on the transaction, in program order.
Attempt(n, matchDoc, reads, snap, ops) ==
    [attempt |-> n, reads |-> reads, snap |-> snap, match |-> matchDoc,
     ops |-> ops, stale |-> FALSE, status |-> "running"]

\* A getAll whose reads the transaction does not track.
StatsReadsUntracked(matchResult, tzHours) == {}

\* The documents generateStats reads in the transaction, as read-set entries.
StatsReads(matchResult, tzHours) ==
    {<<"bucket", k>> : k \in refsToRead(matchResult, tzHours)}

\* allSnapshots / snapshotMap: the bucket documents as the getAll finds them in
\* the records collection bk.
SnapshotOf(bk, matchResult, tzHours) ==
    [k \in refsToRead(matchResult, tzHours) |-> bk[k]]

\* The snapshot map a getAll issued now returns.
SnapshotMap(matchResult, tzHours) == SnapshotOf(buckets, matchResult, tzHours)

\* set / delete operations of a sequence of staged writes, in staging order.
WriteOps(ws) ==
    [i \in 1..Len(ws) |-> [op |-> "write", kind |-> ws[i].kind, docs |-> {ws[i].ref}]]

\* generateStats that reads each participant's buckets just before it stages that
\* participant's writes.
generateStatsOpsPerPlayer(snapshotMap, matchResult, multiplier, tzHours) ==
    Only({ [k \in 1..Len(ws) + Len(ws) \div 3 |->
               IF k % 4 = 1
               THEN [op |-> "read", kind |-> "getAll",
                     docs |-> {ws[3 * (k \div 4) + 2].ref, ws[3 * (k \div 4) + 3].ref}]
               ELSE WriteOps(ws)[k - 1 - k \div 4]] :
           ws \in {generateStats(snapshotMap, matchResult, multiplier, tzHours)} })

\* The operations generateStats issues on the transaction: the read phase (one
\* getAll of every participant's daily and weekly bucket), then the write phase.
generateStatsOps(snapshotMap, matchResult, multiplier, tzHours) ==
    << [op |-> "read", kind |-> "getAll", docs |-> refsToRead(matchResult, tzHours)] >>
    \o WriteOps(generateStats(snapshotMap, matchResult, multiplier, tzHours))

\* The operations of the add transaction's body: generateStats, then the set of
\* the match document.
AddBody(snapshotMap, matchId, matchResult, tzHours) ==
    generateStatsOps(snapshotMap, matchResult, 1, tzHours)
    \o << [op |-> "write", kind |-> "setMatch", docs |-> {matchId}] >>

\* The operations of the delete transaction's body: the get of the match and, if
\* it exists, generateStats with multiplier -1 and the delete of the match.
DeleteBody(snapshotMap, matchId, matchDoc, tzHours) ==
    << [op |-> "read", kind |-> "get", docs |-> {matchId}] >>
    \o (IF matchDoc.exists
        THEN generateStatsOps(snapshotMap, matchDoc, -1, tzHours)
             \o << [op |-> "write", kind |-> "deleteMatch", docs |-> {matchId}] >>
        ELSE <<>>)

\* Body of the add transaction (lines 102-115), run on the documents as they are.
AddAttempt(n, matchId, matchResult) ==
    Only({ Attempt(n, matchResult, StatsReads(matchResult, hostTz), snap,
                   AddBody(snap, matchId, matchResult, hostTz)) :
           snap \in {SnapshotMap(matchResult, hostTz)} })

\* Body of the delete transaction (lines 147-168), run on the documents as they
\* are: transaction.get(matchRef) and, if the match exists, generateStats and
\* the delete.
DeleteAttempt(n, matchId) ==
    IF matches[matchId].exists
    THEN Only({ Attempt(n, matches[matchId],
                        {<<"match", matchId>>} \cup StatsReads(matches[matchId], hostTz),
                        snap, DeleteBody(snap, matchId, matches[matchId], hostTz)) :
                snap \in {SnapshotMap(matches[matchId], hostTz)} })
    ELSE Attempt(n, NoMatch, {<<"match", matchId>>}, <<>>,
                 DeleteBody(<<>>, matchId, NoMatch, hostTz))

\* ------------------------------------------------- addSimpleMatchResult
\* A validator that runs only after the match document has been written.
AddRejectAfterWrite(p, teams, finalScore, matchDate) ==
    /\ pc[p] = "idle"
    /\ nextId <= MaxMatches
    /\ validateAddMatchResultInput(teams[1], teams[2], finalScore, DateParses(matchDate)) # "ok"
    /\ pc' = [pc EXCEPT ![p] = "threw"]
    /\ call' = [call EXCEPT ![p] = [NoCall EXCEPT !.op = "add", !.why = "validation"]]
    /\ matches' = [matches EXCEPT ![nextId] = NewMatchData(teams[1], teams[2], finalScore, matchDate)]
    /\ UNCHANGED <<players, buckets, hostTz, nextId, tx, streakSnap,
                   applied, streakErr, calls, faults, done, peak, now, job>>

\* validateAddMatchResultInput throws: the call ends before any store access.
AddReject(p, teams, finalScore, matchDate) ==
    /\ pc[p] = "idle"
    /\ validateAddMatchResultInput(teams[1], teams[2], finalScore, DateParses(matchDate)) # "ok"
    /\ pc' = [pc EXCEPT ![p] = "threw"]
    /\ call' = [call EXCEPT ![p] = [NoCall EXCEPT !.op = "add", !.why = "validation"]]
    /\ UNCHANGED <<matches, players, buckets, hostTz, nextId, tx, streakSnap,
                   applied, streakErr, calls, faults, done, peak, now, job>>

\* Lines 78-110: validate, build newMatchData, take a fresh matchRef, start the
\* transaction and run the read phase of its first attempt.
AddBegin(p, teams, finalScore, matchDate) ==
    /\ pc[p] = "idle"
    /\ calls < MaxCalls
    /\ nextId <= MaxMatches
    /\ validateAddMatchResultInput(teams[1], teams[2], finalScore, DateParses(matchDate)) = "ok"
    /\ \E m \in {NewMatchData(teams[1], teams[2], finalScore, matchDate)} :
           /\ call' = [call EXCEPT ![p] =
                         [op |-> "add", matchId |-> nextId, match |-> m,
                          allPlayerIds |-> SortIds(teams[1] \o teams[2]), why |-> ""]]
           /\ tx' = [tx EXCEPT ![p] = AddAttempt(1, nextId, m)]
    /\ pc' = [pc EXCEPT ![p] = "txCommit"]
    /\ nextId' = nextId + 1
    /\ calls' = calls + 1
    /\ UNCHANGED <<matches, players, buckets, hostTz, streakSnap, applied, streakErr,
                   faults, done, peak, now, job>>

\* ------------------------------------------------------------ deleteMatch
\* A deleteMatch that runs the streak pass although the match does not exist.
DeleteMissingRunsPass(p, matchId) ==
    /\ pc[p] = "idle"
    /\ ~matches[matchId].exists
    /\ pc' = [pc EXCEPT ![p] = "streakRead"]
    /\ call' = [call EXCEPT ![p] = [NoCall EXCEPT !.op = "delete", !.matchId = matchId,
                                                  !.why = "missing"]]
    /\ UNCHANGED <<matches, players, buckets, hostTz, nextId, tx, streakSnap,
                   applied, streakErr, calls, faults, done, peak, now, job>>

\* Lines 138-145: the preliminary get finds no document: warn and return.
DeleteMissing(p, matchId) ==
    /\ pc[p] = "idle"
    /\ ~matches[matchId].exists
    /\ pc' = [pc EXCEPT ![p] = "returned"]
    /\ call' = [call EXCEPT ![p] = [NoCall EXCEPT !.op = "delete", !.matchId = matchId,
                                                  !.why = "missing"]]
    /\ UNCHANGED <<matches, players, buckets, hostTz, nextId, tx, streakSnap,
                   applied, streakErr, calls, faults, done, peak, now, job>>

\* Lines 138-147: the preliminary get finds the document: keep its player ids and
\* start the transaction.
DeleteBegin(p, matchId) ==
    /\ pc[p] = "idle"
    /\ calls < MaxCalls
    /\ matches[matchId].exists
    /\ pc' = [pc EXCEPT ![p] = "txRead"]
    /\ call' = [call EXCEPT ![p] =
                  [op |-> "delete", matchId |-> matchId, match |-> NoMatch,
                   allPlayerIds |-> SortIds(AllPlayerIds(matches[matchId])),
                   why |-> ""]]
    /\ tx' = [tx EXCEPT ![p] = [NoTx EXCEPT !.attempt = 1, !.status = "running"]]
    /\ UNCHANGED <<matches, players, buckets, hostTz, nextId, streakSnap,
                   applied, streakErr, faults, done, peak, now, job>>
    /\ calls' = calls + 1

\* ------------------------------------------------- runTransaction attempts
\* The reads of one attempt of the transaction body (after DeleteBegin, and at
\* every retry of either transaction).
TxRead(p) ==
    /\ pc[p] = "txRead"
    /\ tx' = [tx EXCEPT ![p] = IF call[p].op = "add"
                               THEN AddAttempt(tx[p].attempt, call[p].matchId, call[p].match)
                               ELSE DeleteAttempt(tx[p].attempt, call[p].matchId)]
    /\ pc' = [pc EXCEPT ![p] = "txCommit"]
    /\ UNCHANGED <<matches, players, buckets, hostTz, nextId, call, streakSnap,
                   applied, streakErr, calls, faults, done, peak, now, job>>

\* Write phase of the add transaction: generateStats' writes, then the match.
AddWrites(snap, matchId, matchResult, tzHours) ==
    generateStats(snap, matchResult, 1, tzHours)
    \o << [kind |-> "setMatch", ref |-> matchId, data |-> matchResult] >>

\* A delete transaction that deletes the match without reversing its statistics.
DeleteWritesNoReversal(snap, matchId, matchDoc, tzHours) ==
    IF matchDoc.exists
    THEN << [kind |-> "deleteMatch", ref |-> matchId, data |-> NoMatch] >>
    ELSE <<>>

\* Write phase of the delete transaction: nothing if the match was not found,
\* else generateStats' reversal writes, then the delete of the match.
DeleteWrites(snap, matchId, matchDoc, tzHours) ==
    IF matchDoc.exists
    THEN generateStats(snap, matchDoc, -1, tzHours)
         \o << [kind |-> "deleteMatch", ref |-> matchId, data |-> NoMatch] >>
    ELSE <<>>

\* The writes the transaction body of caller p stages.
TxWrites(p) ==
    IF call[p].op = "add"
    THEN AddWrites(tx[p].snap, call[p].matchId, call[p].match, hostTz)
    ELSE DeleteWrites(tx[p].snap, call[p].matchId, tx[p].match, hostTz)

\* The staged writes of a running transaction name no document a read set holds:
\* no commit ever makes another attempt stale.
DocOfUntracked(w) == <<"none", w.ref>>

\* The document a staged write goes to, as it appears in read sets.
DocOf(w) ==
    IF w.kind = "setBucket" THEN <<"bucket", w.ref>>
    ELSE IF w.kind = "mergePlayer" THEN <<"player", w.ref>>
    ELSE <<"match", w.ref>>

\* (participant, document) pairs whose statistics a sequence of writes updates.
Touched(ws) ==
    {<<ws[i].ref, "lifetime">> : i \in {j \in 1..Len(ws) : ws[j].kind = "mergePlayer"}}
    \cup
    {<<ws[i].ref[1], ws[i].ref[2]>> : i \in {j \in 1..Len(ws) : ws[j].kind = "setBucket"}}

\* The history of which documents hold which match's increments, after a commit.
AppliedAfter(op, matchId, ws) ==
    IF ws = <<>> THEN applied
    ELSE IF op = "add"
    THEN [applied EXCEPT ![matchId] = @ \cup Touched(ws)]
    ELSE [applied EXCEPT ![matchId] = @ \ Touched(ws)]

\* Where a call continues once runTransaction has resolved.
AfterCommit(p) == "streakRead"

\* A call that goes on to the streak pass although runTransaction has rejected.
AfterTxFailureGoesOn(p) == "streakRead"

\* Where a call continues once runTransaction has rejected.
AfterTxFailure(p) == "threw"

\* The highest streaks held so far, once a commit has left the player documents pl.
PeakAfter(pl) ==
    [x \in Players |->
        [win  |-> Max2(peak[x].win, pl[x].winStreak),
         lose |-> Max2(peak[x].lose, pl[x].loseStreak)]]

\* The transaction commits: every staged write is applied in one step, and every
\* other running transaction that read a written document will have to retry.
TxCommit(p) ==
    /\ pc[p] = "txCommit"
    /\ ~tx[p].stale
    /\ \E ws \in {TxWrites(p)} :
       \E after \in {ApplyWrites(store, ws)}, written \in {{DocOf(ws[i]) : i \in 1..Len(ws)}} :
           /\ matches' = after.matches
           /\ players' = after.players
           /\ buckets' = after.buckets
           /\ tx' = [q \in Procs |->
                       IF q = p
                       THEN [NoTx EXCEPT !.status = "committed",
                                         !.attempt = tx[p].attempt]
                       ELSE IF tx[q].status = "running" /\ tx[q].reads \cap written # {}
                       THEN [tx[q] EXCEPT !.stale = TRUE]
                       ELSE tx[q]]
           /\ applied' = AppliedAfter(call[p].op, call[p].matchId, ws)
           /\ peak' = PeakAfter(after.players)
    /\ pc' = [pc EXCEPT ![p] = AfterCommit(p)]
    /\ call' = [call EXCEPT ![p].match = NoMatch]
    /\ UNCHANGED <<hostTz, nextId, streakSnap, streakErr, calls, faults, done, now, job>>

\* A runTransaction that runs the body again after every conflict, however many
\* attempts have been made.
TxConflictUnbounded(p) ==
    /\ pc[p] = "txCommit"
    /\ tx[p].stale
    /\ tx' = [tx EXCEPT ![p] = [NoTx EXCEPT !.attempt = tx[p].attempt + 1,
                                            !.status = "running"]]
    /\ pc' = [pc EXCEPT ![p] = "txRead"]
    /\ UNCHANGED <<matches, players, buckets, hostTz, nextId, call, streakSnap,
                   applied, streakErr, calls, faults, done, peak, now, job>>

\* A document read by the attempt was written meanwhile: runTransaction runs the
\* body again, or gives up after MaxAttempts attempts and throws.
TxConflict(p) ==
    /\ pc[p] = "txCommit"
    /\ tx[p].stale
    /\ IF tx[p].attempt < MaxAttempts
       THEN /\ tx' = [tx EXCEPT ![p] = [NoTx EXCEPT !.attempt = tx[p].attempt + 1,
                                                    !.status = "running"]]
            /\ pc' = [pc EXCEPT ![p] = "txRead"]
            /\ call' = call
       ELSE /\ tx' = [tx EXCEPT ![p] = [NoTx EXCEPT !.status = "failed"]]
            /\ pc' = [pc EXCEPT ![p] = AfterTxFailure(p)]
            /\ call' = [call EXCEPT ![p] = Ended(call[p], "transaction")]
    /\ UNCHANGED <<matches, players, buckets, hostTz, nextId, streakSnap,
                   applied, streakErr, calls, faults, done, peak, now, job>>

\* The store rejects a read or the commit of the transaction (an error other than
\* a conflict): runTransaction throws and nothing staged is written.
TxFail(p) ==
    /\ pc[p] \in {"txRead", "txCommit"}
    /\ faults < MaxFaults
    /\ tx' = [tx EXCEPT ![p] = [NoTx EXCEPT !.status = "failed"]]
    /\ pc' = [pc EXCEPT ![p] = AfterTxFailure(p)]
    /\ call' = [call EXCEPT ![p] = Ended(call[p], "transaction")]
    /\ UNCHANGED <<matches, players, buckets, hostTz, nextId, streakSnap,
                   applied, streakErr, calls, done, peak, now, job>>
    /\ faults' = faults + 1

\* ------------------------------------------------------ batchUpdateStreaks
\* updatePayload of batchUpdateStreaks for one player snapshot.
updatePayload(data) ==
    [f \in DOMAIN NewPlayerDoc |->
        IF f = "highestWinStreak" /\ data.winStreak > data.highestWinStreak
        THEN SetTo(data.winStreak)
        ELSE IF f = "highestLoseStreak" /\ data.loseStreak > data.highestLoseStreak
        THEN SetTo(data.loseStreak)
        ELSE Keep]

\* needsUpdate of batchUpdateStreaks for one player snapshot.
needsUpdate(data) ==
    \/ data.winStreak > data.highestWinStreak
    \/ data.loseStreak > data.highestLoseStreak

RECURSIVE StreakBatch(_, _, _)
\* The batch.set(docRef, updatePayload, {merge: true}) writes, in snapshot order.
StreakBatch(i, playerIds, snapshots) ==
    IF i > Len(playerIds) THEN <<>>
    ELSE (IF needsUpdate(snapshots[playerIds[i]])
          THEN << [kind |-> "mergePlayer", ref |-> playerIds[i],
                   data |-> updatePayload(snapshots[playerIds[i]])] >>
          ELSE <<>>)
         \o StreakBatch(i + 1, playerIds, snapshots)

\* Line 192: db.getAll(...playerRefs), outside any transaction.
StreakRead(p) ==
    /\ pc[p] = "streakRead"
    /\ streakSnap' = [streakSnap EXCEPT ![p] =
                        [x \in Elems(call[p].allPlayerIds) |-> players[x]]]
    /\ pc' = [pc EXCEPT ![p] = "streakCommit"]
    /\ UNCHANGED <<matches, players, buckets, hostTz, nextId, call, tx,
                   applied, streakErr, calls, faults, done, peak, now, job>>

\* Line 192 rejects: batchUpdateStreaks throws into the caller's catch block
\* (lines 127-130 and 175-178), which throws to the caller.
StreakReadFail(p) ==
    /\ pc[p] = "streakRead"
    /\ faults < MaxFaults
    /\ pc' = [pc EXCEPT ![p] = "threw"]
    /\ call' = [call EXCEPT ![p] = Ended(call[p], "streakRead")]
    /\ tx' = [tx EXCEPT ![p] = NoTx]
    /\ UNCHANGED <<matches, players, buckets, hostTz, nextId, streakSnap,
                   applied, streakErr, calls, done, peak, now, job>>
    /\ faults' = faults + 1

\* Where the call continues after batchUpdateStreaks has returned.
AfterStreaks(p) == IF call[p].op = "add" THEN "addGet" ELSE "returned"

\* The caller's locals after batchUpdateStreaks has returned.
CallAfterStreaks(p) == IF call[p].op = "add" THEN call[p] ELSE Ended(call[p], "")

\* Lines 194-228: build the batch from the snapshots and commit it if
\* maxStreakChanged.
StreakCommit(p) ==
    /\ pc[p] = "streakCommit"
    /\ players' = ApplyWrites(store, StreakBatch(1, call[p].allPlayerIds,
                                                  streakSnap[p])).players
    /\ pc' = [pc EXCEPT ![p] = AfterStreaks(p)]
    /\ call' = [call EXCEPT ![p] = CallAfterStreaks(p)]
    /\ streakSnap' = [streakSnap EXCEPT ![p] = <<>>]
    /\ UNCHANGED <<matches, buckets, hostTz, nextId, tx, applied, streakErr, calls, faults, done, peak, now, job>>

\* Lines 229-231: batch.commit() rejects; the error is logged and swallowed.
StreakCommitFail(p) ==
    /\ pc[p] = "streakCommit"
    /\ faults < MaxFaults
    /\ StreakBatch(1, call[p].allPlayerIds, streakSnap[p]) # <<>>
    /\ pc' = [pc EXCEPT ![p] = AfterStreaks(p)]
    /\ call' = [call EXCEPT ![p] = CallAfterStreaks(p)]
    /\ streakSnap' = [streakSnap EXCEPT ![p] = <<>>]
    /\ streakErr' = TRUE
    /\ UNCHANGED <<matches, players, buckets, hostTz, nextId, tx, applied, calls, done, peak, now, job>>
    /\ faults' = faults + 1

\* Lines 122-126: read the created match back; throw if it is not there.
AddFinish(p) ==
    /\ pc[p] = "addGet"
    /\ IF matches[call[p].matchId].exists
       THEN /\ pc' = [pc EXCEPT ![p] = "returned"]
            /\ call' = [call EXCEPT ![p] = Ended(call[p], "")]
       ELSE /\ pc' = [pc EXCEPT ![p] = "threw"]
            /\ call' = [call EXCEPT ![p] = Ended(call[p], "notRetrieved")]
    /\ UNCHANGED <<matches, players, buckets, hostTz, nextId, tx, streakSnap,
                   applied, streakErr, calls, faults, done, peak, now, job>>

\* The caller has its result (or its error) and is free to make the next call.
Return(p) ==
    /\ pc[p] \in {"returned", "threw"}
    /\ pc' = [pc EXCEPT ![p] = "idle"]
    /\ call' = [call EXCEPT ![p] = NoCall]
    /\ tx' = [tx EXCEPT ![p] = NoTx]
    /\ UNCHANGED <<matches, players, buckets, hostTz, nextId, streakSnap,
                   applied, streakErr, calls, faults, done, peak, now, job>>

\* ------------------------------------------------------- specification
Next ==
    \E p \in Procs :
        \/ \E t \in TeamInputs, s \in ScoreInputs, d \in DateInputs :
              \/ AddReject(p, t, s, d)
              \/ AddBegin(p, t, s, d)
        \/ \E i \in MatchIds : DeleteMissing(p, i) \/ DeleteBegin(p, i)
        \/ TxRead(p)
        \/ TxCommit(p)
        \/ TxConflict(p)
        \/ TxFail(p)
        \/ StreakRead(p)
        \/ StreakReadFail(p)
        \/ StreakCommit(p)
        \/ StreakCommitFail(p)
        \/ AddFinish(p)
        \/ Return(p)

Spec == Init /\ [][Next]_vars

\* ------------------------------------------------- sequential executions
\* Teams a sequential caller passes.
SeqTeamInputs == {<<<<"a">>, <<"b">>>>, <<<<"b">>, <<"a">>>>, <<<<"a">>, <<"c">>>>,
                  <<<<"c">>, <<"b">>>>,
                  <<<<"d", "a">>, <<"c", "b">>>>, <<<<"a", "a">>, <<"b", "c">>>>,
                  <<<<"a", "b">>, <<"c">>>>}

\* Final scores a sequential caller passes.
SeqScoreInputs == {<<10, 3>>, <<0, 11>>, <<5, 5>>, <<11, 10>>}

\* batchUpdateStreaks(playerIds) run from start to end on the store st with no
\* other write in between: the store it leaves.
StreaksSeq(st, playerIds) ==
    Only({ ApplyWrites(s, StreakBatch(1, ids, [x \in Elems(ids) |-> s.players[x]])) :
           s \in {st}, ids \in {playerIds} })

\* addSimpleMatchResult run from start to end with no other call in between and
\* no store failure: the store it leaves.
AddMatchSeq(st, matchId, matchResult, tzHours) ==
    Only({ StreaksSeq(ApplyWrites(s, AddWrites(SnapshotOf(s.buckets, matchResult, tzHours),
                                               matchId, matchResult, tzHours)),
                      SortIds(AllPlayerIds(matchResult))) :
           s \in {st} })

\* deleteMatch run from start to end with no other call in between and no store
\* failure: the store it leaves.
DeleteMatchSeq(st, matchId, tzHours) ==
    Only({ IF ~s.matches[matchId].exists THEN s
           ELSE StreaksSeq(ApplyWrites(s, DeleteWrites(
                                              SnapshotOf(s.buckets, s.matches[matchId], tzHours),
                                              matchId, s.matches[matchId], tzHours)),
                           SortIds(AllPlayerIds(s.matches[matchId]))) :
           s \in {st} })

\* Every document of every participant holds the match's increments.
FullyApplied(matchResult) ==
    {<<x, k>> : x \in Elems(AllPlayerIds(matchResult)),
                k \in {"lifetime", "daily", "weekly"}}

\* The store of Init.
EmptyStore ==
    [matches |-> [i \in MatchIds |-> NoMatch],
     players |-> [x \in Players |-> NewPlayerDoc],
     buckets |-> [k \in AllBucketRefs |-> AbsentBucket]]

\* The match of the scenario: A vs B, score [10,3].
ScenarioMatch ==
    NewMatchData(<<"a">>, <<"b">>, <<10, 3>>, DaysFromCivil(2025, 1, 1) * HoursPerDay + 10)

\* A match document of the scenario's past: x beat "c" 10-3.
PriorMatch(x) ==
    NewMatchData(<<x>>, <<"c">>, <<10, 3>>, DaysFromCivil(2024, 12, 31) * HoursPerDay + 23)

\* The store in which "a" and "b" each hold a 2-0 record: each has beaten "c"
\* twice, by four addSimpleMatchResult calls on the empty store.
ScenarioStore(tzHours) ==
    AddMatchSeq(
        AddMatchSeq(
            AddMatchSeq(
                AddMatchSeq(EmptyStore, -3, PriorMatch("a"), tzHours),
                -2, PriorMatch("b"), tzHours),
            -1, PriorMatch("a"), tzHours),
        0, PriorMatch("b"), tzHours)

InitScenario ==
    /\ hostTz \in HostTzOffsets
    /\ now = ClockStart
    /\ job = NoJob
    /\ \E st \in {ScenarioStore(hostTz)} :
           /\ matches = st.matches
           /\ players = st.players
           /\ buckets = st.buckets
           /\ applied = [i \in MatchIds |->
                           IF st.matches[i].exists THEN FullyApplied(st.matches[i])
                           ELSE {}]
           /\ peak = [x \in Players |-> [win  |-> st.players[x].winStreak,
                                         lose |-> st.players[x].loseStreak]]
    /\ nextId = 1
    /\ pc = [p \in Procs |-> "idle"]
    /\ call = [p \in Procs |-> NoCall]
    /\ tx = [p \in Procs |-> NoTx]
    /\ streakSnap = [p \in Procs |-> <<>>]
    /\ streakErr = FALSE
    /\ calls = 0
    /\ faults = 0
    /\ done = <<>>

\* A whole addSimpleMatchResult call by the sequential caller.
SeqAdd(teams, finalScore, matchDate) ==
    /\ Len(done) < MaxSeqCalls
    /\ nextId <= MaxMatches
    /\ validateAddMatchResultInput(teams[1], teams[2], finalScore, DateParses(matchDate)) = "ok"
    /\ \E m \in {NewMatchData(teams[1], teams[2], finalScore, matchDate)} :
       \E after \in {AddMatchSeq(store, nextId, m, hostTz)} :
           /\ matches' = after.matches
           /\ players' = after.players
           /\ buckets' = after.buckets
           /\ applied' = AppliedAfter("add", nextId,
                             AddWrites(SnapshotMap(m, hostTz), nextId, m, hostTz))
           /\ done' = Append(done, [op |-> "add", matchId |-> nextId, match |-> m,
                                    before |-> store])
           /\ peak' = PeakAfter(after.players)
    /\ nextId' = nextId + 1
    /\ UNCHANGED <<hostTz, pc, call, tx, streakSnap, streakErr, calls, faults, now, job>>

\* A whole deleteMatch call by the sequential caller.
SeqDelete(matchId) ==
    /\ Len(done) < MaxSeqCalls
    /\ \E m \in {matches[matchId]} :
       \E after \in {DeleteMatchSeq(store, matchId, hostTz)} :
           /\ matches' = after.matches
           /\ players' = after.players
           /\ buckets' = after.buckets
           /\ applied' = AppliedAfter("delete", matchId,
                             DeleteWrites(SnapshotMap(m, hostTz), matchId, m, hostTz))
           /\ done' = Append(done, [op |-> "delete", matchId |-> matchId, match |-> m,
                                    before |-> store])
           /\ peak' = PeakAfter(after.players)
    /\ UNCHANGED <<hostTz, nextId, pc, call, tx, streakSnap, streakErr, calls, faults, now, job>>

NextSeq ==
    \/ \E t \in SeqTeamInputs, s \in SeqScoreInputs, d \in MatchDates : SeqAdd(t, s, d)
    \/ \E i \in MatchIds : SeqDelete(i)

\* Sequential, failure-free calls on the store of the scenario.
SpecScenario == InitScenario /\ [][NextSeq]_vars

\* ============================================================ properties
\* The lowest document id of the matches collection.
FirstMatchId == CHOOSE i \in MatchIds : \A j \in MatchIds : i <= j

\* generateStats run in a transaction of its own on the store st, which commits
\* with no other write between its getAll and its commit: the store it leaves.
ApplyStats(st, matchResult, multiplier, tzHours) ==
    Only({ ApplyWrites(s, generateStats(SnapshotOf(s.buckets, matchResult, tzHours),
                                        matchResult, multiplier, tzHours)) :
           s \in {st} })

\* Every numeric counter of every lifetime and bucket document of a store (an
\* absent bucket document reads as all-zero).
Counters(st) ==
    Only({ [lifetime |-> [x \in Players |-> [f \in LifetimeCounters |-> s.players[x][f]]],
            bucket   |-> [k \in AllBucketRefs |->
                            [f \in BucketCounters |-> s.buckets[k][f]]]] :
           s \in {st} })

\* The sequential caller's last two calls were an addSimpleMatchResult and the
\* deleteMatch of the match it created: generateStats has run with +1 and then
\* with -1 for the same match, and only the streak pass in between.
AddedThenDeleted ==
    /\ Len(done) >= 2
    /\ done[Len(done) - 1].op = "add"
    /\ done[Len(done)].op = "delete"
    /\ done[Len(done)].matchId = done[Len(done) - 1].matchId

\* C1 (reversibility of counters): whatever the store held before and whatever
\* the valid match E, after generateStats(E, +1) followed by generateStats(E, -1)
\* every lifetime counter and every daily and weekly counter of every document
\* equals its value before E, an absent document counting as all-zero (winStreak,
\* loseStreak and the maxima are not compared).
ReversibilityOfCounters ==
    AddedThenDeleted => Counters(store) = Counters(done[Len(done) - 1].before)

\* An 11-0 away win was added and deleted after an earlier call: it created bucket
\* documents that were absent and raised counters of documents that existed, and
\* every counter is back at its earlier value.
ReversibilityWitness ==
    /\ AddedThenDeleted
    /\ Len(done) = 3
    /\ done[2].match.finalScore = <<0, 11>>
    /\ \E k \in AllBucketRefs : ~done[2].before.buckets[k].exists /\ buckets[k].exists
    /\ \E k \in AllBucketRefs :
          /\ done[2].before.buckets[k].exists
          /\ done[3].before.buckets[k].wins > done[2].before.buckets[k].wins
    /\ \E x \in Players :
          done[3].before.players[x].totalKnockouts > done[2].before.players[x].totalKnockouts
    /\ Counters(store) = Counters(done[2].before)

RECURSIVE Replay(_, _)
\* The store obtained from st by applying the +1 increments of every match
\* document with an id >= i that is present in the matches collection.
Replay(st, i) ==
    IF i > MaxMatches THEN st
    ELSE Replay(IF matches[i].exists THEN ApplyStats(st, matches[i], 1, hostTz) ELSE st,
                i + 1)

\* C2 (log/aggregate consistency): in every reachable state, whatever the
\* interleaving of addSimpleMatchResult and deleteMatch calls, every lifetime
\* counter and every bucket counter equals the sum of the +1 increments of exactly
\* the match documents present in the matches collection.
LogAggregateConsistency ==
    Counters(Replay(EmptyStore, FirstMatchId)) = Counters(store)

\* The first match has been added and deleted again, the second is in the log, and
\* both callers are between their transaction's commit and the end of their call.
LogAggregateWitness ==
    /\ ~matches[1].exists
    /\ matches[2].exists
    /\ \E x \in Players : players[x].totalMatches = 1 /\ players[x].highestLoseStreak = 1
    /\ \A p \in Procs : pc[p] \in {"streakRead", "streakCommit"}
    /\ \E p \in Procs : call[p].op = "delete"

\* C3 (all-or-nothing per event): in every reachable state the lifetime, daily and
\* weekly documents of all participants of a match hold that match's increments if
\* the match is in the log, and none of them does otherwise, also after aborted
\* and retried transactions.
AllOrNothingPerEvent ==
    \A i \in MatchIds :
        applied[i] = IF matches[i].exists THEN FullyApplied(matches[i]) ELSE {}

\* An add transaction has committed on its second attempt or later, another call's
\* transaction has been aborted, and the added match is in the log.
AllOrNothingWitness ==
    \E p, q \in Procs :
        /\ call[p].op = "add"
        /\ tx[p].status = "committed"
        /\ tx[p].attempt >= 2
        /\ matches[call[p].matchId].exists
        /\ tx[q].status = "failed"

\* The matches in the log that player x took part in.
MatchesOf(x) ==
    {i \in MatchIds : matches[i].exists /\ x \in Elems(AllPlayerIds(matches[i]))}

\* The matches in the log that fall into the bucket with path k.
MatchesIn(k) ==
    {i \in MatchesOf(k[1]) : getTimePeriodIds(matches[i].matchDate, hostTz)[k[2]] = k[3]}

\* C4 (no lost update): every player's lifetime and bucket documents count every
\* match in the log the player took part in, and no transaction commits bucket
\* writes computed from a snapshot that differs from the stored documents at the
\* moment of the commit.
NoLostUpdate ==
    /\ [](/\ \A x \in Players : players[x].totalMatches = Cardinality(MatchesOf(x))
          /\ \A k \in AllBucketRefs : buckets[k].matchesPlayed = Cardinality(MatchesIn(k)))
    /\ [][\A p \in Procs :
             (pc[p] = "txCommit" /\ tx'[p].status = "committed")
             => \A k \in DOMAIN tx[p].snap : tx[p].snap[k] = buckets[k]]_vars

\* Two matches that share a player and a period are both in the log, one of them
\* committed by a transaction that had to run again after a conflict.
NoLostUpdateWitness ==
    /\ matches[1].exists
    /\ matches[2].exists
    /\ \E p \in Procs : tx[p].status = "committed" /\ tx[p].attempt >= 2
    /\ \E k \in AllBucketRefs : buckets[k].matchesPlayed = 2

\* C5 (monotonic maxima): no step of any execution lowers a player's
\* highestWinStreak or highestLoseStreak.
MonotonicMaxima ==
    [][\A x \in Players :
          /\ players'[x].highestWinStreak >= players[x].highestWinStreak
          /\ players'[x].highestLoseStreak >= players[x].highestLoseStreak]_vars

\* C6 (maxima dominate at quiescence): when no call is in progress and no store
\* request has failed, highestWinStreak >= winStreak and highestLoseStreak >=
\* loseStreak for every player.
MaximaDominateAtQuiescence ==
    (/\ \A p \in Procs : pc[p] = "idle"
     /\ ~streakErr
     /\ faults = 0)
    => \A x \in Players :
          /\ players[x].highestWinStreak >= players[x].winStreak
          /\ players[x].highestLoseStreak >= players[x].loseStreak

\* C7 (streak exclusivity): no player ever has winStreak > 0 and loseStreak > 0,
\* and a transaction that commits the application or the reversal of a match with
\* no winner leaves winStreak = 0 and loseStreak = 0 for every participant.
StreakExclusivity ==
    /\ [](\A x \in Players : ~(players[x].winStreak > 0 /\ players[x].loseStreak > 0))
    /\ [][\A p \in Procs :
             (/\ pc[p] = "txCommit"
              /\ tx'[p].status = "committed"
              /\ tx[p].match.exists
              /\ tx[p].match.toto = 0)
             => \A x \in Elems(AllPlayerIds(tx[p].match)) :
                   players'[x].winStreak = 0 /\ players'[x].loseStreak = 0]_vars

\* A player who has won a match has then played a match nobody won, and holds no
\* streak.
StreakExclusivityWitness ==
    \E x \in Players :
        /\ players[x].totalWins = 1
        /\ players[x].totalLosses = 0
        /\ players[x].totalMatches = 2
        /\ players[x].winStreak = 0
        /\ players[x].loseStreak = 0

\* C8 (add-then-delete restores the pre-match state): starting with "a" and "b"
\* each on a 2-0 record, adding the match a vs b [10,3] and then deleting it
\* leaves both players' lifetime documents exactly as they were, streaks and
\* maxima included.
AddThenDeleteRestores ==
    (/\ Len(done) = 2
     /\ done[1].op = "add"
     /\ done[1].match = ScenarioMatch
     /\ done[2].op = "delete"
     /\ done[2].matchId = done[1].matchId)
    => \A x \in {"a", "b"} : players[x] = ScenarioStore(hostTz).players[x]

\* C9 (idempotent delete): a deleteMatch call for an id with no match document
\* returns without error in its first step, and that step changes no match,
\* lifetime or bucket document, starts no transaction and reads nothing for a
\* streak pass.
IdempotentDelete ==
    [][\A p \in Procs :
          (/\ pc[p] = "idle"
           /\ call'[p].op = "delete"
           /\ ~matches[call'[p].matchId].exists)
          => /\ pc'[p] = "returned"
             /\ matches' = matches
             /\ players' = players
             /\ buckets' = buckets
             /\ applied' = applied
             /\ tx' = tx
             /\ streakSnap' = streakSnap]_vars

\* A second deleteMatch for the id of a match that was added and deleted has
\* returned.
IdempotentDeleteWitness ==
    \E p \in Procs :
        /\ pc[p] = "returned"
        /\ call[p].why = "missing"
        /\ call[p].matchId = 1
        /\ \E x \in Players : players[x].totalMatches = 0 /\ players[x].highestWinStreak = 1

\* C10 (streak pass ordering): a call is in batchUpdateStreaks only after its own
\* transaction has committed, the pass reads the call's participants, and a call
\* whose transaction has failed throws without ever starting the pass.
StreakPassAfterCommit ==
    /\ [](\A p \in Procs :
             /\ pc[p] \in {"streakRead", "streakCommit"} => tx[p].status = "committed"
             /\ pc[p] = "streakCommit"
                  => DOMAIN streakSnap[p] = Elems(call[p].allPlayerIds))
    /\ [][\A p \in Procs :
             /\ tx'[p].status = "failed" => pc'[p] = "threw"
             /\ pc[p] = "threw" => pc'[p] \in {"threw", "idle"}]_vars

\* One caller is in the streak pass after its commit while the other has thrown
\* because its transaction failed.
StreakPassWitness ==
    \E p, q \in Procs :
        /\ pc[p] = "streakCommit"
        /\ tx[p].status = "committed"
        /\ pc[q] = "threw"
        /\ tx[q].status = "failed"

\* ------------------------------------------------------------------ C11
\* C11: once every in-flight operation has finished (with no streak pass having
\* failed), each player's highestWinStreak and highestLoseStreak are at least
\* every value the player's winStreak and loseStreak held in a committed state.
AllFinished ==
    /\ \A p \in Procs : pc[p] = "idle"
    /\ ~streakErr
    /\ faults = 0

HistoricalMaximumRecorded ==
    AllFinished =>
        \A x \in Players : /\ players[x].highestWinStreak >= peak[x].win
                           /\ players[x].highestLoseStreak >= peak[x].lose


\* ------------------------------------------------------------------ C12
\* C12: a failure inside batchUpdateStreaks (its getAll read or its batch commit)
\* never surfaces: a call that has entered the streak pass does not end by
\* throwing.
StreakFailuresNeverSurface ==
    [][\A p \in Procs :
          pc[p] \in {"streakRead", "streakCommit"} => pc'[p] # "threw"]_vars


\* ------------------------------------------------------------------ C13
\* The input of the add call that p has in progress passes the validator.
CallInputAccepted(c) ==
    validateAddMatchResultInput(c.match.homeTeamIds, c.match.awayTeamIds,
                                c.match.finalScore, DateParses(c.match.matchDate)) = "ok"

\* C13: rejected input changes nothing. Every addSimpleMatchResult call that
\* starts either carries input the validator accepts, or throws at once with the
\* matches, players and bucket documents unchanged, no document id taken, no
\* transaction started and no streak pass run.
RejectedInputChangesNothing ==
    [][\A p \in Procs :
          (pc[p] = "idle" /\ pc'[p] # "idle" /\ call'[p].op = "add") =>
              \/ /\ pc'[p] = "txCommit"
                 /\ CallInputAccepted(call'[p])
              \/ /\ pc'[p] = "threw"
                 /\ call'[p].why = "validation"
                 /\ UNCHANGED <<matches, players, buckets, nextId, tx, streakSnap, applied, now, job>>]_vars

\* A call was rejected by the validator while a match and its statistics were
\* already in the store.
RejectedInputWitness ==
    \E p \in Procs :
        /\ pc[p] = "threw"
        /\ call[p].op = "add"
        /\ call[p].why = "validation"
        /\ \E i \in 1..MaxMatches : matches[i].exists
        /\ \E x \in Players : players[x].totalMatches > 0


\* ======================================================= the validator alone
\* Arguments a caller may pass as teams: empty, unequal, too large, sharing a
\* player across or within the teams, and well-formed 1v1 and 2v2 pairings.
ValidatorTeams ==
    {<<<<>>, <<"a">>>>, <<<<"a">>, <<>>>>, <<<<>>, <<>>>>,
     <<<<"a">>, <<"b">>>>, <<<<"a">>, <<"a">>>>,
     <<<<"a", "b">>, <<"c">>>>, <<<<"a", "b">>, <<"c", "d">>>>,
     <<<<"a", "a">>, <<"b", "c">>>>, <<<<"a", "b">>, <<"c", "a">>>>,
     <<<<"a", "b", "c">>, <<"d", "e", "f">>>>, <<<<"a", "b", "a">>, <<"d", "e", "f">>>>}

\* Components of the finalScore a caller may pass.
ScoreValues == -1..12

\* The matchDate arguments: a timestamp or a string that is no date.
ValidatorDates == {DaysFromCivil(2025, 1, 1) * HoursPerDay + 10, NotADate}

\* Every variable of the store and of the callers, at rest.
AtRest ==
    /\ matches = [i \in MatchIds |-> NoMatch]
    /\ players = [x \in Players |-> NewPlayerDoc]
    /\ buckets = [k \in AllBucketRefs |-> AbsentBucket]
    /\ nextId = 1
    /\ pc = [p \in Procs |-> "idle"]
    /\ call = [p \in Procs |-> NoCall]
    /\ tx = [p \in Procs |-> NoTx]
    /\ streakSnap = [p \in Procs |-> <<>>]
    /\ applied = [i \in MatchIds |-> {}]
    /\ streakErr = FALSE
    /\ calls = 0
    /\ faults = 0
    /\ peak = [x \in Players |-> [win |-> 0, lose |-> 0]]
    /\ now = ClockStart
    /\ job = NoJob

\* A caller holds the arguments of one validateAddMatchResultInput call.
InitValidator ==
    /\ AtRest
    /\ hostTz \in HostTzOffsets
    /\ \E t \in ValidatorTeams, s1 \in ScoreValues, s2 \in ScoreValues, d \in ValidatorDates :
           done = <<[op |-> "validate", homeTeamIds |-> t[1], awayTeamIds |-> t[2],
                     finalScore |-> <<s1, s2>>, matchDate |-> d, result |-> "pending"]>>

\* The validator runs on the arguments: it returns ("ok") or throws (the rule).
Validate ==
    /\ done[1].result = "pending"
    /\ done' = <<[done[1] EXCEPT !.result =
                    validateAddMatchResultInput(done[1].homeTeamIds, done[1].awayTeamIds,
                                                done[1].finalScore,
                                                DateParses(done[1].matchDate))]>>
    /\ UNCHANGED <<matches, players, buckets, hostTz, nextId, pc, call, tx, streakSnap,
                   applied, streakErr, calls, faults, peak, now, job>>

SpecValidator == InitValidator /\ [][Validate]_vars

\* The validator has run on the arguments in done[1].
Validated == done[1].result # "pending"

\* ------------------------------------------------------------------ C14
\* The rule an error of the validator belongs to.
RuleOf(result) ==
    CASE result \in {"homeEmpty", "awayEmpty", "teamSizes"} -> "teamSizes"
      [] result \in {"scoreFormat", "scoreExceeds11"} -> "scoreRange"
      [] result \in {"tie10", "tie11", "elevenVsMoreThan10", "tenVsTenOrMore"} -> "scoreLegality"
      [] result = "duplicatePlayer" -> "duplicatePlayer"
      [] result = "matchDate" -> "matchDate"
      [] OTHER -> "ok"

\* The score of the team that leads, and that of its opponent.
Leader(finalScore) ==
    IF finalScore[1] >= finalScore[2] THEN finalScore[1] ELSE finalScore[2]

Opponent(finalScore) ==
    IF finalScore[1] >= finalScore[2] THEN finalScore[2] ELSE finalScore[1]

\* The arguments c violate the rule.
Violates(rule, c) ==
    CASE rule = "teamSizes" ->
             \/ Len(c.homeTeamIds) = 0 \/ Len(c.awayTeamIds) = 0
             \/ Len(c.homeTeamIds) # Len(c.awayTeamIds)
             \/ Len(c.homeTeamIds) > 2
      [] rule = "scoreRange" ->
             \E i \in 1..2 : c.finalScore[i] < 0 \/ c.finalScore[i] > 11
      [] rule = "scoreLegality" ->
             \/ Leader(c.finalScore) = 10 /\ Opponent(c.finalScore) >= 10
             \/ Leader(c.finalScore) = 11 /\ Opponent(c.finalScore) > 10
      [] rule = "duplicatePlayer" ->
             Cardinality(Elems(c.homeTeamIds \o c.awayTeamIds))
                 < Len(c.homeTeamIds) + Len(c.awayTeamIds)
      [] rule = "matchDate" -> c.matchDate = NotADate

\* The first rule of the order that the arguments violate, "ok" if none.
FirstViolated(order, c) ==
    IF \E i \in 1..Len(order) : Violates(order[i], c)
    THEN order[CHOOSE i \in 1..Len(order) :
                   /\ Violates(order[i], c)
                   /\ \A j \in 1..(i - 1) : ~Violates(order[j], c)]
    ELSE "ok"

\* The order in which the source checks the rules.
SourceRuleOrder == <<"teamSizes", "scoreRange", "scoreLegality", "duplicatePlayer", "matchDate">>

\* The order with the duplicate-player rule third, before score legality.
DuplicateThirdRuleOrder == <<"teamSizes", "scoreRange", "duplicatePlayer", "scoreLegality", "matchDate">>

Leads(c, hi, lo) == c.finalScore \in {<<hi, lo>>, <<lo, hi>>}

\* The teams and the matchDate of c violate no rule: only the score can.
OtherRulesPass(c) ==
    /\ ~Violates("teamSizes", c)
    /\ ~Violates("duplicatePlayer", c)
    /\ ~Violates("matchDate", c)

\* C15 (as amended): over the score pairs in 0..11 x 0..11, either team leading,
\* 10-10 and 11-11 are rejected, 10-x is accepted for every x < 10 and 11-x is
\* accepted for every x <= 10.
ValidatorTotality ==
    (Validated /\ OtherRulesPass(done[1])) =>
        /\ (Leads(done[1], 10, 10) \/ Leads(done[1], 11, 11)) => done[1].result # "ok"
        /\ \A x \in 0..9 : Leads(done[1], 10, x) => done[1].result = "ok"
        /\ \A x \in 0..10 : Leads(done[1], 11, x) => done[1].result = "ok"

\* C15 (as stated): 10-10, 11-11 and 11-10 are rejected, 10-x is accepted for
\* every x < 10 and 11-x is accepted for every x <= 9.
ValidatorTotalityAsListed ==
    (Validated /\ OtherRulesPass(done[1])) =>
        /\ (Leads(done[1], 10, 10) \/ Leads(done[1], 11, 11) \/ Leads(done[1], 11, 10))
               => done[1].result # "ok"
        /\ \A x \in 0..9 : Leads(done[1], 10, x) => done[1].result = "ok"
        /\ \A x \in 0..9 : Leads(done[1], 11, x) => done[1].result = "ok"

\* The validator has accepted 11-10 for a well-formed 2v2 pairing.
ValidatorTotalityWitness ==
    /\ Validated
    /\ OtherRulesPass(done[1])
    /\ Len(done[1].homeTeamIds) = 2
    /\ done[1].finalScore = <<11, 10>>
    /\ done[1].result = "ok"

\* ------------------------------------------------------------------ C16
\* C16: with well-formed teams, a score pair is rejected if a component is
\* negative or greater than 11, if it is 10-10 or 11-11, if the leader has 10 and
\* the opponent has >= 10, or if the leader has 11 and the opponent has > 10; with
\* the other rules passing, a leader of 11 against exactly 10 is accepted, and so
\* is every pair in which neither side reaches 10.
ScoreLegality ==
    (Validated /\ ~Violates("teamSizes", done[1])) =>
        \E s \in {done[1].finalScore} :
            /\ (\/ s[1] < 0 \/ s[2] < 0 \/ s[1] > 11 \/ s[2] > 11
                \/ s = <<10, 10>> \/ s = <<11, 11>>
                \/ Leader(s) = 10 /\ Opponent(s) >= 10
                \/ Leader(s) = 11 /\ Opponent(s) > 10)
                   => RuleOf(done[1].result) \in {"scoreRange", "scoreLegality"}
            /\ (OtherRulesPass(done[1]) /\ Leader(s) = 11 /\ Opponent(s) = 10)
                   => done[1].result = "ok"
            /\ (OtherRulesPass(done[1]) /\ s[1] \in 0..9 /\ s[2] \in 0..9)
                   => done[1].result = "ok"

\* The validator has accepted a 1v1 match that the away team won 11 against 10.
ScoreLegalityWitness ==
    /\ Validated
    /\ OtherRulesPass(done[1])
    /\ Len(done[1].homeTeamIds) = 1
    /\ done[1].finalScore = <<10, 11>>
    /\ done[1].result = "ok"


\* ------------------------------------------------------------------ C17
\* C17 (as stated): every match record in the matches collection is decided: one
\* team's score is strictly greater than the other's.
EveryPersistedMatchDecided ==
    \A i \in 1..MaxMatches :
        matches[i].exists => matches[i].finalScore[1] # matches[i].finalScore[2]

\* C17 (as amended): every match record in the matches collection is either
\* decided (one team's score strictly greater than the other's) or a tie in which
\* neither team reached 10; a match in which a team reached 10 is decided.
PersistedMatchDecidedOrLowTie ==
    \A i \in 1..MaxMatches :
        matches[i].exists =>
            \/ matches[i].finalScore[1] # matches[i].finalScore[2]
            \/ /\ matches[i].finalScore[1] = matches[i].finalScore[2]
               /\ matches[i].finalScore[1] < 10

\* The matches collection holds a 5-5 match and a match that was won 11-0.
PersistedMatchWitness ==
    \E i, j \in 1..MaxMatches :
        /\ matches[i].exists /\ matches[i].finalScore = <<5, 5>>
        /\ matches[j].exists /\ matches[j].finalScore = <<0, 11>>


\* ------------------------------------------------------------------ C18
\* The number of writes of the given kind that ws stages for the document ref.
TouchesOf(ws, kind, ref) ==
    Cardinality({k \in 1..Len(ws) : ws[k].kind = kind /\ ws[k].ref = ref})

\* Home and away team of m have the same size, 1 or 2, and no id occurs twice.
WellFormedTeams(m) ==
    /\ Len(m.homeTeamIds) = Len(m.awayTeamIds)
    /\ Len(m.homeTeamIds) \in {1, 2}
    /\ Cardinality(Elems(m.homeTeamIds) \cup Elems(m.awayTeamIds))
           = Len(m.homeTeamIds) + Len(m.awayTeamIds)
    /\ Elems(m.homeTeamIds) \cap Elems(m.awayTeamIds) = {}

\* generateStats stages, for every participant of m, exactly one write of the
\* player document, one of the daily bucket and one of the weekly bucket.
TouchedOnce(m) ==
    \E ws \in {generateStats(SnapshotMap(m, hostTz), m, 1, hostTz)},
       ids \in {getTimePeriodIds(m.matchDate, hostTz)} :
        \A x \in Elems(AllPlayerIds(m)) :
            /\ TouchesOf(ws, "mergePlayer", x) = 1
            /\ TouchesOf(ws, "setBucket", BucketRef(x, "daily", ids.daily)) = 1
            /\ TouchesOf(ws, "setBucket", BucketRef(x, "weekly", ids.weekly)) = 1

\* C18: every match record in the matches collection has home and away teams of
\* equal size 1 or 2 and 2 or 4 pairwise distinct participant ids, so that
\* generateStats touches each participant's documents exactly once per match.
WellFormedParticipants ==
    \A i \in MatchIds :
        matches[i].exists => WellFormedTeams(matches[i]) /\ TouchedOnce(matches[i])

\* The matches collection holds a 2v2 match of four players next to 1v1 matches.
WellFormedParticipantsWitness ==
    \E i, j \in MatchIds :
        /\ matches[i].exists /\ Len(matches[i].homeTeamIds) = 2
        /\ Cardinality(Elems(AllPlayerIds(matches[i]))) = 4
        /\ matches[j].exists /\ Len(matches[j].homeTeamIds) = 1


\* ================================================== the period resolver alone
\* Days the timestamps fall on: the first week of January 2024, and the three
\* weeks from Monday 2024-12-23 to Sunday 2025-01-12.
PeriodDays ==
    {DaysFromCivil(2024, 1, 1) + k : k \in 0..6}
        \cup {DaysFromCivil(2024, 12, 23) + k : k \in 0..20}

\* Timestamps passed to getTimePeriodIds: the first and the last hour of each day.
PeriodTimestamps == {d * HoursPerDay + h : d \in PeriodDays, h \in {0, 23}}

\* Offsets (hours east of UTC) of the hosts that run getTimePeriodIds.
PeriodTzOffsets == {-5, 0, 2}

\* A getTimePeriodIds call that has not run yet.
PendingIds == [daily |-> <<0, 0, 0>>, weekly |-> <<0, 0>>]

\* A host holds the timestamps of two getTimePeriodIds calls.
InitPeriods ==
    /\ AtRest
    /\ hostTz \in PeriodTzOffsets
    /\ \E t1 \in PeriodTimestamps, t2 \in PeriodTimestamps :
           done = <<[op |-> "getTimePeriodIds", timestamp |-> t1, resolved |-> FALSE,
                     ids |-> PendingIds],
                    [op |-> "getTimePeriodIds", timestamp |-> t2, resolved |-> FALSE,
                     ids |-> PendingIds]>>

\* The k-th call runs on the host.
ResolvePeriods(k) ==
    /\ ~done[k].resolved
    /\ done' = [done EXCEPT ![k].resolved = TRUE,
                            ![k].ids = getTimePeriodIds(done[k].timestamp, hostTz)]
    /\ UNCHANGED <<matches, players, buckets, hostTz, nextId, pc, call, tx, streakSnap,
                   applied, streakErr, calls, faults, peak, now, job>>

NextPeriods == \E k \in 1..2 : ResolvePeriods(k)

SpecPeriods == InitPeriods /\ [][NextPeriods]_vars

\* Both calls have run.
BothResolved == done[1].resolved /\ done[2].resolved

\* ------------------------------------------------------------------ C19
\* The Monday-to-Sunday week a day number falls in, counted from the week of
\* 1970-01-01 (a Thursday, whose week began on day -3).
IsoWeekIndex(day) == (day + 3) \div 7

\* ISO-8601 week-year and week number of a day: those of the Thursday of its
\* week; week 1 is the week that holds the year's first Thursday.
IsoWeekId(day) ==
    LET thursday == IsoWeekIndex(day) * 7
        y        == CivilFromDays(thursday)[1]
    IN  <<y, (thursday - DaysFromCivil(y, 1, 1)) \div 7 + 1>>

\* C19: on a host whose local time is UTC, two timestamps get the same weekly id
\* if and only if they fall in the same Monday-to-Sunday ISO week, and the id is
\* the ISO week-year with the ISO week number.
IsoWeekIdentity ==
    (BothResolved /\ hostTz = 0) =>
        /\ (done[1].ids.weekly = done[2].ids.weekly)
               <=> (IsoWeekIndex(UtcDay(done[1].timestamp))
                        = IsoWeekIndex(UtcDay(done[2].timestamp)))
        /\ \A k \in 1..2 : done[k].ids.weekly = IsoWeekId(UtcDay(done[k].timestamp))

\* ------------------------------------------------------------------ C20
\* C20: two timestamps on the same UTC day get the same daily id and the same
\* weekly id, whatever their time of day and whatever the host's time zone.
PeriodDeterminism ==
    (BothResolved /\ UtcDay(done[1].timestamp) = UtcDay(done[2].timestamp)) =>
        /\ done[1].ids.daily = done[2].ids.daily
        /\ done[1].ids.weekly = done[2].ids.weekly


\* ============================================ the increment calculators alone
\* Teams of the matches whose increments are computed: a 1v1 and a 2v2 pairing.
IncrementTeams == {<<<<"a">>, <<"b">>>>, <<<<"d", "a">>, <<"c", "b">>>>}

\* The nine bucket increments before calculateTimeBasedIncrements has run.
NoIncrements ==
    [matchesPlayed |-> 0, wins |-> 0, losses |-> 0, goalsFor |-> 0, goalsAgainst |-> 0,
     humiliationsInflicted |-> 0, humiliationsSuffered |-> 0,
     suckerPunchesDealt |-> 0, suckerPunchesReceived |-> 0]

\* generateStats holds a match the validator accepted and one of its participants.
InitIncrements ==
    /\ AtRest
    /\ hostTz \in HostTzOffsets
    /\ \E t \in IncrementTeams, s1 \in ScoreValues, s2 \in ScoreValues, d \in ValidatorDates :
       \E x \in Elems(t[1] \o t[2]) :
           /\ validateAddMatchResultInput(t[1], t[2], <<s1, s2>>, DateParses(d)) = "ok"
           /\ done = <<[op |-> "increments", computed |-> FALSE,
                        match |-> NewMatchData(t[1], t[2], <<s1, s2>>, d),
                        playerId |-> x,
                        entityMatchResult |-> EntityMatchResult(x, NoMatch),
                        plus |-> NoIncrements, minus |-> NoIncrements,
                        metricsPlus |-> calculateMetrics(EntityMatchResult(x, NoMatch), NoMatch, 0),
                        metricsMinus |-> calculateMetrics(EntityMatchResult(x, NoMatch), NoMatch, 0)]>>

\* Lines 135-147: the participant's entityMatchResult and the increments of the
\* match, computed with multiplier +1 and with multiplier -1.
ComputeIncrements ==
    /\ ~done[1].computed
    /\ \E er \in {EntityMatchResult(done[1].playerId, done[1].match)} :
           done' = <<[done[1] EXCEPT
                        !.computed = TRUE,
                        !.entityMatchResult = er,
                        !.plus = calculateTimeBasedIncrements(er, done[1].match, 1),
                        !.minus = calculateTimeBasedIncrements(er, done[1].match, -1),
                        !.metricsPlus = calculateMetrics(er, done[1].match, 1),
                        !.metricsMinus = calculateMetrics(er, done[1].match, -1)]>>
    /\ UNCHANGED <<matches, players, buckets, hostTz, nextId, pc, call, tx, streakSnap,
                   applied, streakErr, calls, faults, peak, now, job>>

SpecIncrements == InitIncrements /\ [][ComputeIncrements]_vars

\* The increments of the participant in done[1] have been computed.
Computed == done[1].computed

\* The participant is on the team with the higher (the lower) score.
OnWinningTeam(c) ==
    IF Includes(c.match.homeTeamIds, c.playerId)
    THEN c.match.finalScore[1] > c.match.finalScore[2]
    ELSE c.match.finalScore[2] > c.match.finalScore[1]

OnLosingTeam(c) ==
    IF Includes(c.match.homeTeamIds, c.playerId)
    THEN c.match.finalScore[1] < c.match.finalScore[2]
    ELSE c.match.finalScore[2] < c.match.finalScore[1]

\* ------------------------------------------------------------------ C21
\* What C21 says of a 10-0 match: the humiliation flag is set for both
\* participants, inflicted for the winner and suffered for the loser.
HumiliationFlags(c) ==
    Leads(c.match, 10, 0) =>
        /\ c.entityMatchResult.hasHumiliation
        /\ OnWinningTeam(c) => /\ c.plus.humiliationsInflicted = 1
                               /\ c.plus.humiliationsSuffered = 0
        /\ OnLosingTeam(c) => /\ c.plus.humiliationsSuffered = 1
                              /\ c.plus.humiliationsInflicted = 0

\* C21 (as amended): for a 10-0 match the humiliation flag is set for both
\* participants (inflicted for the winner, suffered for the loser); for an 11-7
\* match the sucker-punch flag is set for both participants as well: the
\* winner's suckerPunchesDealt and totalSuckerpunches grow by 1, the loser's
\* suckerPunchesReceived and totalKnockouts grow by 1.
FlagsPerParticipant ==
    Computed =>
        /\ HumiliationFlags(done[1])
        /\ Leads(done[1].match, 11, 7) =>
               /\ done[1].entityMatchResult.hasSuckerPunch
               /\ OnWinningTeam(done[1]) =>
                      /\ done[1].plus.suckerPunchesDealt = 1
                      /\ done[1].plus.suckerPunchesReceived = 0
                      /\ done[1].metricsPlus.totalSuckerpunches = Inc(1)
                      /\ done[1].metricsPlus.totalKnockouts = Keep
               /\ OnLosingTeam(done[1]) =>
                      /\ done[1].plus.suckerPunchesDealt = 0
                      /\ done[1].plus.suckerPunchesReceived = 1
                      /\ done[1].metricsPlus.totalSuckerpunches = Keep
                      /\ done[1].metricsPlus.totalKnockouts = Inc(1)

\* C21 (as stated): for a 10-0 match the humiliation flag is set for both
\* participants; for an 11-7 match the sucker-punch flag is set for the winner
\* only, and no sucker-punch counter of the loser changes.
FlagsWinnerOnly ==
    Computed =>
        /\ HumiliationFlags(done[1])
        /\ Leads(done[1].match, 11, 7) =>
               /\ OnWinningTeam(done[1]) =>
                      /\ done[1].entityMatchResult.hasSuckerPunch
                      /\ done[1].plus.suckerPunchesDealt = 1
               /\ OnLosingTeam(done[1]) =>
                      /\ ~done[1].entityMatchResult.hasSuckerPunch
                      /\ done[1].plus.suckerPunchesDealt = 0
                      /\ done[1].plus.suckerPunchesReceived = 0
                      /\ done[1].metricsPlus.totalSuckerpunches = Keep
                      /\ done[1].metricsPlus.totalKnockouts = Keep

\* The increments of the loser of a 2v2 match lost 7-11 have been computed.
FlagsPerParticipantWitness ==
    /\ Computed
    /\ Len(done[1].match.homeTeamIds) = 2
    /\ done[1].match.finalScore = <<7, 11>>
    /\ OnLosingTeam(done[1])
    /\ done[1].plus.suckerPunchesReceived = 1


\* ================================================================ backfill
\* backfillTimeStats (sandbox trigger): the job that recomputes the daily and
\* weekly bucket documents of a date range from the match log.

\* MATCH_FETCH_LIMIT, scaled down so that a range of two matches takes two pages.
MatchFetchLimit == 1

\* WRITE_BATCH_LIMIT, scaled down so that three documents take two batches.
WriteBatchLimit == 2

\* Steps the wall clock takes while the model runs, each of ClockStep hours.
MaxTicks == 1

\* Hours between two readings of the wall clock.
ClockStep == 12

\* backfillTimeStats requests the model issues.
MaxRuns == 2

\* Teams of the live calls that run next to the backfill.
BackfillTeams == {<<<<"a">>, <<"b">>>>, <<<<"a">>, <<"c">>>>}

\* Scores of the live calls that run next to the backfill.
BackfillScores == {<<10, 3>>}

\* A query parameter the request does not carry.
NoParam == -2

\* startDate / endDate query parameters (YYYY-MM-DD as the day's first hour),
\* absent ones and an unparsable one.
RangeInputs ==
    Only({ {<<d1, d1>>, <<d1, d2>>, <<d2, d2>>, <<d2, d1>>, <<NoParam, NoParam>>,
            <<NotADate, d2>>} :
           d1 \in {DaysFromCivil(2024, 12, 31) * HoursPerDay},
           d2 \in {DaysFromCivil(2025, 1, 1) * HoursPerDay} })

\* startDateIso: the start of the day in UTC, or new Date(2025, 0, 1) in the
\* host's local time.
StartDateIso(startDateParam, tzHours) ==
    IF startDateParam # NoParam THEN startDateParam
    ELSE DaysFromCivil(2025, 1, 1) * HoursPerDay - tzHours

\* endDateIso: the last instant of the day in UTC, or the wall clock.
EndDateIso(endDateParam, clock) ==
    IF endDateParam # NoParam THEN endDateParam + (HoursPerDay - 1) ELSE clock

\* The try block around the range: an unparsable parameter makes toISOString
\* throw, an end before the start is rejected.
RangeOk(startDateParam, endDateParam, tzHours, clock) ==
    /\ startDateParam # NotADate
    /\ endDateParam # NotADate
    /\ ~(EndDateIso(endDateParam, clock) < StartDateIso(startDateParam, tzHours))

\* Order of the query: orderBy(matchDate, asc), ties by document id.
QueryBefore(coll, i, j) ==
    \/ coll[i].matchDate < coll[j].matchDate
    \/ coll[i].matchDate = coll[j].matchDate /\ i < j

\* The query resumed after the cursor's matchDate alone: documents that share
\* the matchDate of the last one returned are passed over.
QueryRestAfterDate(coll, startDateIso, endDateIso, cursor) ==
    {i \in MatchIds :
        /\ coll[i].exists
        /\ coll[i].matchDate >= startDateIso
        /\ coll[i].matchDate <= endDateIso
        /\ \/ cursor = <<>>
           \/ cursor[1] < coll[i].matchDate}

\* Documents the query still has to return: in the range and after the cursor
\* (the matchDate and id of lastMatchSnapshot).
QueryRest(coll, startDateIso, endDateIso, cursor) ==
    {i \in MatchIds :
        /\ coll[i].exists
        /\ coll[i].matchDate >= startDateIso
        /\ coll[i].matchDate <= endDateIso
        /\ \/ cursor = <<>>
           \/ cursor[1] < coll[i].matchDate
           \/ cursor[1] = coll[i].matchDate /\ cursor[2] < i}

\* matchesSnapshot.docs of one query.get(): the first `fetchLimit` of them, as ids.
QueryPage(coll, startDateIso, endDateIso, cursor, fetchLimit) ==
    Only({ [k \in 1..Min2(fetchLimit, Cardinality(rest)) |->
                CHOOSE i \in rest :
                    Cardinality({j \in rest : QueryBefore(coll, j, i)}) = k - 1] :
           rest \in {QueryRest(coll, startDateIso, endDateIso, cursor)} })

\* calculateTimeBasedIncrements of the trigger file (multiplier defaults to 1).
backfillIncrements(entityResult, matchResult) ==
    calculateTimeBasedIncrements(entityResult, matchResult, 1)

\* aggregateIncrements: counters summed, firstActivityAt the earliest and
\* lastUpdatedAt the latest matchDate aggregated so far (an empty aggregate has
\* neither).
aggregateIncrements(existing, increments, matchTimestamp) ==
    [existing EXCEPT
        !.exists = TRUE,
        !.matchesPlayed = @ + increments.matchesPlayed,
        !.wins = @ + increments.wins,
        !.losses = @ + increments.losses,
        !.goalsFor = @ + increments.goalsFor,
        !.goalsAgainst = @ + increments.goalsAgainst,
        !.humiliationsInflicted = @ + increments.humiliationsInflicted,
        !.humiliationsSuffered = @ + increments.humiliationsSuffered,
        !.suckerPunchesDealt = @ + increments.suckerPunchesDealt,
        !.suckerPunchesReceived = @ + increments.suckerPunchesReceived,
        !.firstActivityAt = IF existing.firstActivityAt # 0
                            THEN (IF existing.firstActivityAt < matchTimestamp
                                  THEN existing.firstActivityAt ELSE matchTimestamp)
                            ELSE matchTimestamp,
        !.lastUpdatedAt = IF matchTimestamp > existing.lastUpdatedAt
                          THEN matchTimestamp ELSE existing.lastUpdatedAt]

\* dailyAggregates / weeklyAggregates after one more key: agg.docs maps a bucket
\* path to its aggregate, agg.order lists the paths in insertion order.
AggregateInto(agg, ref, increments, matchTimestamp) ==
    [docs  |-> [agg.docs EXCEPT ![ref] = aggregateIncrements(@, increments, matchTimestamp)],
     order |-> IF agg.docs[ref].exists THEN agg.order ELSE Append(agg.order, ref)]

\* The body of the loop over allPlayerIds for one participant of one match.
AggregatePlayer(agg, matchResult, playerId, tzHours) ==
    Only({ AggregateInto(
               AggregateInto(agg, BucketRef(playerId, "daily", ids.daily), incs,
                             matchResult.matchDate),
               BucketRef(playerId, "weekly", ids.weekly), incs, matchResult.matchDate) :
           ids  \in {getTimePeriodIds(matchResult.matchDate, tzHours)},
           incs \in {backfillIncrements(EntityMatchResult(playerId, matchResult),
                                        matchResult)} })

RECURSIVE AggregatePlayers(_, _, _, _)
\* The loop over allPlayerIds[i..] of one match.
AggregatePlayers(agg, matchResult, i, tzHours) ==
    IF i > Len(AllPlayerIds(matchResult)) THEN agg
    ELSE \* the loop body, then the rest of the loop
         AggregatePlayers(
             Only({AggregatePlayer(a, matchResult, AllPlayerIds(matchResult)[i], tzHours) :
                   a \in {agg}}),
             matchResult, i + 1, tzHours)

RECURSIVE AggregatePage(_, _, _, _, _)
\* The loop over matchesSnapshot.docs[k..]; every match document the service
\* writes carries matchDate, both teams and finalScore, so none is skipped.
AggregatePage(agg, coll, page, k, tzHours) ==
    IF k > Len(page) THEN agg
    ELSE AggregatePage(
             Only({AggregatePlayers(a, coll[page[k]], 1, tzHours) : a \in {agg}}),
             coll, page, k + 1, tzHours)

\* The order in which writeAggregatesToFirestore visits the aggregates of one
\* period type: for (timeframeId in aggregates) for (playerId in ...), each in
\* insertion order.
WriteOrder(order, periodType) ==
    Only({ Only({ [k \in 1..Cardinality(idx) |->
                      order[CHOOSE i \in idx :
                                Cardinality({j \in idx :
                                    \/ first[j] < first[i]
                                    \/ first[j] = first[i] /\ j < i}) = k - 1]] :
                  first \in {[i \in idx |->
                                 CHOOSE j \in idx :
                                     /\ order[j][3] = order[i][3]
                                     /\ \A h \in idx : order[h][3] = order[i][3] => j <= h]} }) :
           idx \in {{i \in 1..Len(order) : order[i][2] = periodType}} })

\* finalDoc that stamps lastUpdatedAt with the time of the run.
FinalDocStampsRun(statsData, ref, nowISOforFallback) ==
    [statsData EXCEPT
        !.playerId = ref[1], !.periodType = ref[2], !.timeframeId = ref[3],
        !.firstActivityAt = IF @ # 0 THEN @ ELSE nowISOforFallback,
        !.lastUpdatedAt = nowISOforFallback]

\* finalDoc of writeAggregatesToFirestore.
FinalDoc(statsData, ref, nowISOforFallback) ==
    [statsData EXCEPT
        !.playerId = ref[1], !.periodType = ref[2], !.timeframeId = ref[3],
        !.firstActivityAt = IF @ # 0 THEN @ ELSE nowISOforFallback,
        !.lastUpdatedAt = IF @ # 0 THEN @ ELSE nowISOforFallback]

\* The documents of one period type in write order, as staged set() writes.
WriteQueue(agg, periodType, nowISOforFallback) ==
    Only({ [k \in 1..Len(wo) |->
               [kind |-> "setBucket", ref |-> wo[k],
                data |-> FinalDoc(agg.docs[wo[k]], wo[k], nowISOforFallback)]] :
           wo \in {WriteOrder(agg.order, periodType)} })


\* The request is over: the response is sent and recorded with the run.
Respond(j, status, message, bucketsAfter) ==
    /\ job' = [j EXCEPT !.phase = "responded", !.status = status, !.message = message]
    /\ done' = [done EXCEPT ![j.entry] =
                   [@ EXCEPT !.status = status, !.message = message,
                             !.after = bucketsAfter]]

\* Security check: the request carries no valid secret (403).
BackfillForbidden ==
    /\ job.phase \in {"idle", "responded"}
    /\ job.runs < MaxRuns
    /\ job' = [NoJob EXCEPT !.phase = "responded", !.runs = job.runs + 1, !.status = 403]
    /\ UNCHANGED <<matches, players, buckets, hostTz, nextId, pc, call, tx, streakSnap,
                   applied, streakErr, calls, faults, done, peak, now>>

\* The date range does not parse or ends before it starts (400).
BackfillBadRange(range) ==
    /\ job.phase \in {"idle", "responded"}
    /\ job.runs < MaxRuns
    /\ ~RangeOk(range[1], range[2], hostTz, now)
    /\ job' = [NoJob EXCEPT !.phase = "responded", !.runs = job.runs + 1, !.status = 400]
    /\ UNCHANGED <<matches, players, buckets, hostTz, nextId, pc, call, tx, streakSnap,
                   applied, streakErr, calls, faults, done, peak, now>>

\* The request is accepted: the range is resolved and the locals initialised.
BackfillStart(range) ==
    /\ job.phase \in {"idle", "responded"}
    /\ job.runs < MaxRuns
    /\ Len(done) < MaxSeqCalls
    /\ RangeOk(range[1], range[2], hostTz, now)
    /\ job' = [NoJob EXCEPT !.phase = "fetch", !.runs = job.runs + 1,
                            !.entry = Len(done) + 1,
                            !.startDateIso = StartDateIso(range[1], hostTz),
                            !.endDateIso = EndDateIso(range[2], now),
                            !.nowISO = now]
    /\ done' = Append(done, [op |-> "backfill", matchId |-> 0, match |-> NoMatch,
                             before |-> store,
                             startDateIso |-> StartDateIso(range[1], hostTz),
                             endDateIso |-> EndDateIso(range[2], now),
                             status |-> 0, message |-> <<>>, after |-> buckets])
    /\ UNCHANGED <<matches, players, buckets, hostTz, nextId, pc, call, tx, streakSnap,
                   applied, streakErr, calls, faults, peak, now>>

\* One turn of the while loop: query.get() of the next page, which is aggregated,
\* or is empty and ends the loop, after which the daily writer starts.
BackfillFetch ==
    /\ job.phase = "fetch"
    /\ \E page \in {QueryPage(matches, job.startDateIso, job.endDateIso,
                              job.lastMatchSnapshot, MatchFetchLimit)} :
           IF page = <<>>
           THEN job' = [job EXCEPT
                           !.phase = "daily",
                           !.queue = WriteQueue([docs |-> job.aggregates, order |-> job.order],
                                                "daily", job.nowISO),
                           !.totalWrites = 0, !.rejected = FALSE]
           ELSE \E agg \in {AggregatePage([docs |-> job.aggregates, order |-> job.order],
                                          matches, page, 1, hostTz)} :
                    job' = [job EXCEPT
                               !.aggregates = agg.docs, !.order = agg.order,
                               !.totalMatchesProcessed = @ + Len(page),
                               !.lastMatchSnapshot =
                                   <<matches[page[Len(page)]].matchDate, page[Len(page)]>>]
    /\ UNCHANGED <<matches, players, buckets, hostTz, nextId, pc, call, tx, streakSnap,
                   applied, streakErr, calls, faults, done, peak, now>>

\* query.get() rejects: the catch block answers 500 with the error's message.
BackfillFetchFail ==
    /\ job.phase = "fetch"
    /\ faults < MaxFaults
    /\ faults' = faults + 1
    /\ Respond(job, 500, <<>>, buckets)
    /\ UNCHANGED <<matches, players, buckets, hostTz, nextId, pc, call, tx, streakSnap,
                   applied, streakErr, calls, peak, now>>

\* commitBatchIfNeeded called once the batch holds more than WRITE_BATCH_LIMIT
\* operations.
IssuedBatchOverLimit(j, ok) ==
    Only({ [j EXCEPT !.queue = SubSeq(j.queue, n + 1, Len(j.queue)),
                     !.totalWrites = @ + n,
                     !.rejected = j.rejected \/ ~ok] :
           n \in {Min2(WriteBatchLimit + 1, Len(j.queue))} })

\* commitBatchIfNeeded: the batch's commit() promise is pushed to writePromises
\* without being awaited, the operations are counted and the loop goes on.
IssuedBatch(j, ok) ==
    Only({ [j EXCEPT !.queue = SubSeq(j.queue, n + 1, Len(j.queue)),
                     !.totalWrites = @ + n,
                     !.rejected = j.rejected \/ ~ok] :
           n \in {Min2(WriteBatchLimit, Len(j.queue))} })

\* The writer's loop up to its next commit, whose batch of at most
\* WRITE_BATCH_LIMIT set() operations is applied atomically.
BackfillCommit ==
    /\ job.phase \in {"daily", "weekly"}
    /\ job.queue # <<>>
    /\ buckets' = ApplyWrites(store, SubSeq(job.queue, 1,
                                            Min2(WriteBatchLimit, Len(job.queue)))).buckets
    /\ job' = IssuedBatch(job, TRUE)
    /\ UNCHANGED <<matches, players, hostTz, nextId, pc, call, tx, streakSnap,
                   applied, streakErr, calls, faults, done, peak, now>>

\* The same, with a commit the store rejects: none of the batch is written.
BackfillCommitFail ==
    /\ job.phase \in {"daily", "weekly"}
    /\ job.queue # <<>>
    /\ faults < MaxFaults
    /\ faults' = faults + 1
    /\ job' = IssuedBatch(job, FALSE)
    /\ UNCHANGED <<matches, players, buckets, hostTz, nextId, pc, call, tx, streakSnap,
                   applied, streakErr, calls, done, peak, now>>

\* await Promise.all(writePromises) at the end of a writer: a rejected commit
\* throws into the handler's catch block (500, the error's message only); else
\* the daily writer returns its count and the weekly one starts, or the weekly
\* writer returns and the success message is sent (200, with the three counts).
BackfillAwait ==
    /\ job.phase \in {"daily", "weekly"}
    /\ job.queue = <<>>
    /\ IF job.rejected
       THEN Respond(job, 500, <<>>, buckets)
       ELSE IF job.phase = "daily"
       THEN /\ job' = [job EXCEPT
                          !.phase = "weekly", !.dailyWrites = job.totalWrites,
                          !.queue = WriteQueue([docs |-> job.aggregates, order |-> job.order],
                                               "weekly", job.nowISO),
                          !.totalWrites = 0]
            /\ UNCHANGED done
       ELSE Respond(job, 200,
                    <<job.totalMatchesProcessed, job.dailyWrites, job.totalWrites>>, buckets)
    /\ UNCHANGED <<matches, players, buckets, hostTz, nextId, pc, call, tx, streakSnap,
                   applied, streakErr, calls, faults, peak, now>>

\* Time passes.
Tick ==
    /\ now < ClockStart + MaxTicks * ClockStep
    /\ now' = now + ClockStep
    /\ UNCHANGED <<matches, players, buckets, hostTz, nextId, pc, call, tx, streakSnap,
                   applied, streakErr, calls, faults, done, peak, job>>

\* The store is empty, the clock reads ClockStart and no request is in progress.
InitBackfill ==
    /\ AtRest
    /\ hostTz \in HostTzOffsets
    /\ done = <<>>

NextBackfill ==
    \/ \E t \in BackfillTeams, s \in BackfillScores, d \in MatchDates : SeqAdd(t, s, d)
    \/ \E i \in 1..MaxMatches : SeqDelete(i)
    \/ Tick
    \/ BackfillForbidden
    \/ \E r \in RangeInputs : BackfillBadRange(r)
    \/ \E r \in RangeInputs : BackfillStart(r)
    \/ BackfillFetch
    \/ BackfillFetchFail
    \/ BackfillCommit
    \/ BackfillCommitFail
    \/ BackfillAwait

\* Sequential live calls next to backfill requests on an initially empty store.
SpecBackfill == InitBackfill /\ [][NextBackfill]_vars


\* ------------------------------------------------------------------ C22
\* C22: firstActivityAt is write-once: a bucket document that exists keeps its
\* firstActivityAt value in every later state, whichever of addSimpleMatchResult,
\* deleteMatch and backfillTimeStats touches it.
FirstActivityWriteOnce ==
    [][\A k \in AllBucketRefs :
           buckets[k].exists => buckets'[k].firstActivityAt = buckets[k].firstActivityAt]_vars

\* ------------------------------------------------------------------ C23
\* C23: every daily and weekly bucket document that exists satisfies
\* firstActivityAt <= lastUpdatedAt, after any sequence of live updates and
\* backfill runs under a wall clock that never goes back.
BucketTimestampOrder ==
    \A k \in AllBucketRefs :
        buckets[k].exists => buckets[k].firstActivityAt <= buckets[k].lastUpdatedAt


\* ------------------------------------------------------------------ C24
\* All nine counters of a bucket document are 0.
CountersZero(doc) == \A f \in BucketCounters : doc[f] = 0

\* The step is a deleteMatch call that found its match.
DeleteStep ==
    /\ Len(done') = Len(done) + 1
    /\ done'[Len(done')].op = "delete"
    /\ done'[Len(done')].match.exists

\* Bucket paths of the match just deleted that no other match recorded so far
\* has touched.
TouchedOnlyByDeleted ==
    {k \in refsToRead(done'[Len(done')].match, hostTz) :
        \A i \in 1..Len(done) :
            (done[i].op = "add" /\ done[i].matchId # done'[Len(done')].matchId)
                => k \notin refsToRead(done[i].match, hostTz)}

\* C24: a bucket document that exists also exists in every later state, and a
\* deleteMatch of the only match that touched a bucket leaves the document in
\* place with all nine counters equal to 0.
BucketsPersist ==
    [][/\ \A k \in AllBucketRefs : buckets[k].exists => buckets'[k].exists
       /\ DeleteStep =>
              \A k \in TouchedOnlyByDeleted :
                  buckets'[k].exists /\ CountersZero(buckets'[k])]_vars

\* A deleteMatch has reversed the only match of a bucket, whose document is still
\* there with all counters 0, after a backfill run had written it.
BucketsPersistWitness ==
    /\ Len(done) = 3
    /\ done[1].op = "add"
    /\ done[2].op = "backfill" /\ done[2].status = 200 /\ done[2].message[2] > 0
    /\ done[3].op = "delete" /\ done[3].match.exists /\ done[3].matchId = done[1].matchId
    /\ \E k \in refsToRead(done[3].match, hostTz) :
           buckets[k].exists /\ CountersZero(buckets[k])


\* ------------------------------------------------------------------ C25
\* The last two calls recorded are backfillTimeStats runs over the same resolved
\* date range that both answered 200, the second of which has just responded: no
\* addSimpleMatchResult or deleteMatch call ran between the start of the first
\* and the end of the second.
RanTwice ==
    /\ Len(done) >= 2
    /\ job.phase = "responded" /\ job.entry = Len(done)
    /\ \A k \in {Len(done) - 1, Len(done)} :
           done[k].op = "backfill" /\ done[k].status = 200
    /\ done[Len(done) - 1].startDateIso = done[Len(done)].startDateIso
    /\ done[Len(done) - 1].endDateIso = done[Len(done)].endDateIso

\* C25: after a second backfillTimeStats run over the same date range, with no
\* match added or deleted in between, every bucket document the run wrote is
\* field for field what it was after the first run.
IdempotentBackfill ==
    RanTwice =>
        \A i \in 1..Len(job.order) :
            buckets[job.order[i]] = done[Len(done) - 1].after[job.order[i]]

\* After a live call created the buckets of a match, two runs over the same
\* range have written them, the second one started after the clock had moved.
IdempotentBackfillWitness ==
    /\ RanTwice
    /\ done[1].op = "add"
    /\ done[Len(done)].message[2] > 0
    /\ job.nowISO > ClockStart
    /\ \E i \in 1..Len(job.order) : buckets[job.order[i]].exists

\* ------------------------------------------------------------------ C26
\* A batch commit of the running writer has been rejected.
CommitRejected == job.phase \in {"daily", "weekly"} /\ job.rejected

\* C26: once a batch commit of the backfill has failed, no further batch is
\* issued, the failing commit and the response that ends the run leave the
\* documents of the batches committed before in the store, and that response
\* reports the matches processed and the documents written so far.
BackfillStopsAtFailure ==
    [][/\ CommitRejected => job'.totalWrites = job.totalWrites
       /\ (job'.rejected /\ (~job.rejected \/ job'.phase # job.phase))
              => buckets' = buckets
       /\ (CommitRejected /\ job'.phase = "responded") => Len(job'.message) >= 2]_vars


\* ------------------------------------------------------------------ C27
\* No read follows a write in a sequence of transaction operations.
ReadsBeforeWrites(ops) ==
    \A i, j \in 1..Len(ops) : (ops[i].op = "write" /\ ops[j].op = "read") => j < i

\* C27: in every attempt of the transaction body of addSimpleMatchResult and of
\* deleteMatch, the first one and every retry, all reads (the get of the match,
\* the getAll of every participant's daily and weekly bucket) are issued before
\* the first write is staged, and the getAll covers the buckets of all
\* participants.
ReadsPrecedeWrites ==
    \A p \in Procs :
        tx[p].status = "running" =>
            /\ ReadsBeforeWrites(tx[p].ops)
            /\ tx[p].match.exists =>
                   \E i \in 1..Len(tx[p].ops) :
                       /\ tx[p].ops[i].kind = "getAll"
                       /\ tx[p].ops[i].docs = refsToRead(tx[p].match, hostTz)

\* A retry of the delete transaction has found its match, read the buckets of
\* both participants and staged its writes, the delete of the match last.
ReadsPrecedeWritesWitness ==
    \E q \in Procs :
        /\ call[q].op = "delete" /\ tx[q].status = "running" /\ tx[q].attempt >= 2
        /\ tx[q].match.exists
        /\ tx[q].ops[1].kind = "get" /\ tx[q].ops[2].kind = "getAll"
        /\ tx[q].ops[Len(tx[q].ops)].kind = "deleteMatch"

\* ============================================================ contention
\* One caller of the service next to other instances of it, whose calls commit
\* while the caller's transaction runs.

\* Calls the other instances complete.
MaxRivalCalls == 5

\* Calls the observed caller makes.
MaxRetryCalls == 1

\* The caller whose transaction is observed.
RetryCallers == {1}

\* Teams, score and matchDate of the calls made under contention: all touch the
\* buckets of "c" on 2024-12-31.
RetryTeams == {<<<<"a">>, <<"c">>>>}

RetryScores == {<<0, 11>>}

RetryDates == {DaysFromCivil(2024, 12, 31) * HoursPerDay + 23}

\* Ids the observed caller deletes: a stored match and an id no match has.
RetryIds == {-3, 1}

\* Running transactions that have read a document of `written` will find, at
\* commit, that their reads are out of date.
MarkStale(written) ==
    [q \in Procs |->
        IF tx[q].status = "running" /\ tx[q].reads \cap written # {}
        THEN [tx[q] EXCEPT !.stale = TRUE]
        ELSE tx[q]]

\* A whole addSimpleMatchResult call of another instance, committed in between.
RivalAdd(teams, finalScore, matchDate) ==
    /\ Len(done) < MaxRivalCalls
    /\ nextId <= MaxMatches
    /\ validateAddMatchResultInput(teams[1], teams[2], finalScore, DateParses(matchDate)) = "ok"
    /\ \E m \in {NewMatchData(teams[1], teams[2], finalScore, matchDate)} :
       \E ws \in {AddWrites(SnapshotMap(m, hostTz), nextId, m, hostTz)} :
       \E after \in {AddMatchSeq(store, nextId, m, hostTz)} :
           /\ matches' = after.matches
           /\ players' = after.players
           /\ buckets' = after.buckets
           /\ tx' = MarkStale({DocOf(ws[i]) : i \in 1..Len(ws)})
           /\ applied' = AppliedAfter("add", nextId, ws)
           /\ done' = Append(done, [op |-> "rival"])
           /\ peak' = PeakAfter(after.players)
    /\ nextId' = nextId + 1
    /\ UNCHANGED <<hostTz, pc, call, streakSnap, streakErr, calls, faults, now, job>>

\* A whole deleteMatch call of another instance, committed in between.
RivalDelete(matchId) ==
    /\ Len(done) < MaxRivalCalls
    /\ matches[matchId].exists
    /\ \E m \in {matches[matchId]} :
       \E ws \in {DeleteWrites(SnapshotMap(m, hostTz), matchId, m, hostTz)} :
       \E after \in {DeleteMatchSeq(store, matchId, hostTz)} :
           /\ matches' = after.matches
           /\ players' = after.players
           /\ buckets' = after.buckets
           /\ tx' = MarkStale({DocOf(ws[i]) : i \in 1..Len(ws)})
           /\ applied' = AppliedAfter("delete", matchId, ws)
           /\ done' = Append(done, [op |-> "rival"])
           /\ peak' = PeakAfter(after.players)
    /\ UNCHANGED <<hostTz, nextId, pc, call, streakSnap, streakErr, calls, faults, now, job>>

\* The steps of the caller's own call.
CallerStep ==
    \E p \in RetryCallers :
        \/ TxRead(p)
        \/ TxCommit(p)
        \/ TxConflict(p)
        \/ StreakRead(p)
        \/ StreakCommit(p)
        \/ AddFinish(p)
        \/ Return(p)

\* The observed caller calls addSimpleMatchResult.
CallerAdd(p, teams, finalScore, matchDate) ==
    /\ calls < MaxRetryCalls
    /\ AddBegin(p, teams, finalScore, matchDate)

\* The observed caller calls deleteMatch.
CallerDelete(p, matchId) ==
    /\ calls < MaxRetryCalls
    /\ DeleteBegin(p, matchId)

NextRetry ==
    \/ \E p \in RetryCallers, t \in RetryTeams, s \in RetryScores, d \in RetryDates :
           CallerAdd(p, t, s, d)
    \/ \E p \in RetryCallers, i \in RetryIds : CallerDelete(p, i)
    \/ CallerStep
    \/ \E t \in RetryTeams, s \in RetryScores, d \in RetryDates : RivalAdd(t, s, d)
    \/ \E i \in PriorIds : RivalDelete(i)

\* A call that has started keeps running: the runtime resumes it after every
\* await. Nothing obliges callers or other instances to make calls.
SpecRetry == InitScenario /\ [][NextRetry]_vars /\ WF_vars(CallerStep)

\* ------------------------------------------------------------------ C28
\* The step is one of caller p's transaction: its pc moves from the body or the
\* commit of an attempt.
TxStep(p) == pc[p] \in {"txRead", "txCommit"} /\ pc'[p] # pc[p]

\* The bucket documents the body of p's attempt has just read are the stored
\* ones, for every participant.
FreshReads(p) ==
    (pc[p] = "txRead" /\ pc'[p] = "txCommit" /\ tx'[p].match.exists) =>
        /\ DOMAIN tx'[p].snap = refsToRead(tx'[p].match, hostTz)
        /\ \A k \in DOMAIN tx'[p].snap : tx'[p].snap[k] = buckets[k]

\* C28: under conflicts every attempt of an addSimpleMatchResult / deleteMatch
\* transaction reads all bucket documents afresh, no more than MaxAttempts (5)
\* attempts are made, a conflict on the last one ends the call with an error, a
\* call that does not commit changes no document, and every call that has
\* started ends, returned or thrown.
BoundedRetry ==
    /\ [](\A p \in Procs : tx[p].attempt <= MaxAttempts)
    /\ [][\A p \in Procs :
              /\ FreshReads(p)
              /\ (TxStep(p) /\ tx'[p].status # "committed") => store' = store
              /\ (TxStep(p) /\ tx[p].stale /\ tx[p].attempt >= MaxAttempts)
                     => (pc'[p] = "threw" /\ tx'[p].status = "failed")]_vars
    /\ \A p \in Procs : (pc[p] # "idle") ~> (pc[p] \in {"returned", "threw"})

\* A call has ended with the transaction's error after its fifth attempt met a
\* conflict, five calls of other instances having committed meanwhile.
BoundedRetryWitness ==
    \E p \in Procs :
        /\ pc[p] = "threw" /\ call[p].why = "transaction" /\ tx[p].status = "failed"
        /\ Len(done) = MaxRivalCalls


\* ------------------------------------------------------------------ C29
\* The fields of the bucket increments and of the lifetime merge payload.
MetricFields == DOMAIN calculateMetrics(EntityMatchResult("a", NoMatch), NoMatch, 0)

\* The payload field `minus` undoes the payload field `plus`: both are
\* increments of opposite amounts, or neither is an increment and they are equal.
Negates(plus, minus) ==
    IF plus.op = "inc"
    THEN minus.op = "inc" /\ minus.v = 0 - plus.v /\ plus.v + minus.v = 0
    ELSE minus = plus

\* C29: for every accepted match and participant, each of the nine fields of
\* calculateTimeBasedIncrements with multiplier -1 is the negation of the same
\* field with multiplier +1, and every increment calculateMetrics produces (each
\* lifetime counter among them) is negated likewise, so the +1 and the -1
\* increments of one match sum to zero field by field.
LinearityOfIncrements ==
    Computed =>
        /\ \A f \in BucketCounters :
               /\ done[1].minus[f] = 0 - done[1].plus[f]
               /\ done[1].plus[f] + done[1].minus[f] = 0
        /\ \A f \in MetricFields : Negates(done[1].metricsPlus[f], done[1].metricsMinus[f])
        /\ \A f \in LifetimeCounters : done[1].metricsPlus[f].op \in {"inc", "keep"}

\* The increments of a 2v2 loser who conceded 11 and scored 7 have been computed
\* with both multipliers: losses +1 / -1, goalsAgainst +11 / -11, goalsFor +7 / -7.
LinearityOfIncrementsWitness ==
    /\ Computed
    /\ Len(done[1].match.homeTeamIds) = 2
    /\ done[1].plus.losses = 1 /\ done[1].minus.losses = -1
    /\ done[1].plus.goalsAgainst = 11 /\ done[1].minus.goalsAgainst = -11
    /\ done[1].plus.goalsFor = 7 /\ done[1].minus.goalsFor = -7
    /\ done[1].metricsPlus.totalLosses = Inc(1)
    /\ done[1].metricsMinus.totalLosses = Inc(-1)
    /\ done[1].metricsMinus.totalGoalsAgainst = Inc(-11)


\* ------------------------------------------------------------------ C30
\* The sequential caller's last call was the addSimpleMatchResult of a match one
\* team won.
DecidedMatchApplied ==
    /\ Len(done) >= 1
    /\ done[Len(done)].op = "add"
    /\ done[Len(done)].match.finalScore[1] # done[Len(done)].match.finalScore[2]

\* The participant's lifetime document `after` is `before` with one more match:
\* won (won = TRUE) or lost, with the team's goals scored and conceded.
LifetimeEffect(before, after, won, for, against) ==
    /\ after.totalMatches = before.totalMatches + 1
    /\ after.totalGoalsFor = before.totalGoalsFor + for
    /\ after.totalGoalsAgainst = before.totalGoalsAgainst + against
    /\ IF won
       THEN /\ after.totalWins = before.totalWins + 1
            /\ after.totalLosses = before.totalLosses
            /\ after.winStreak = before.winStreak + 1
            /\ after.loseStreak = 0
       ELSE /\ after.totalLosses = before.totalLosses + 1
            /\ after.totalWins = before.totalWins
            /\ after.loseStreak = before.loseStreak + 1
            /\ after.winStreak = 0

\* The same deltas in a bucket document (an absent one counting as all-zero).
BucketEffect(before, after, won, for, against) ==
    /\ after.exists
    /\ after.wins = before.wins + (IF won THEN 1 ELSE 0)
    /\ after.losses = before.losses + (IF won THEN 0 ELSE 1)
    /\ after.goalsFor = before.goalsFor + for
    /\ after.goalsAgainst = before.goalsAgainst + against

\* What the match of the call e has done to the documents of participant x.
EffectOn(e, x) ==
    \E home \in {Includes(e.match.homeTeamIds, x)} :
    \E for \in {IF home THEN e.match.finalScore[1] ELSE e.match.finalScore[2]} :
    \E against \in {IF home THEN e.match.finalScore[2] ELSE e.match.finalScore[1]} :
    \E ids \in {getTimePeriodIds(e.match.matchDate, hostTz)} :
        /\ LifetimeEffect(e.before.players[x], players[x], for > against, for, against)
        /\ \A k \in {BucketRef(x, "daily", ids.daily), BucketRef(x, "weekly", ids.weekly)} :
               BucketEffect(e.before.buckets[k], buckets[k], for > against, for, against)

\* C30: once a decided match has been applied, every participant of the winning
\* team has totalMatches, totalWins and winStreak one higher, loseStreak 0,
\* totalGoalsFor higher by the own team's score and totalGoalsAgainst by the
\* other team's; every participant of the losing team has totalMatches,
\* totalLosses and loseStreak one higher, winStreak 0 and the goal counters
\* grown the other way round; the daily and the weekly bucket of each hold the
\* same win, loss and goal deltas.
DecidedMatchEffect ==
    DecidedMatchApplied =>
        \A x \in Elems(AllPlayerIds(done[Len(done)].match)) : EffectOn(done[Len(done)], x)

\* A 2v2 match won 11-0 by the away team has been applied after an earlier call:
\* a winner's streak went from 2 to 3 and a loser's streak of 2 wins was cut to
\* 0, and a bucket document was created for a participant who had none.
DecidedMatchEffectWitness ==
    /\ DecidedMatchApplied
    /\ Len(done) >= 2
    /\ done[Len(done)].match.finalScore = <<0, 11>>
    /\ Len(done[Len(done)].match.homeTeamIds) = 2
    /\ \E x \in Elems(done[Len(done)].match.awayTeamIds) :
           /\ done[Len(done)].before.players[x].winStreak = 2
           /\ players[x].winStreak = 3
           /\ players[x].totalGoalsFor = done[Len(done)].before.players[x].totalGoalsFor + 11
    /\ \E x \in Elems(done[Len(done)].match.homeTeamIds) :
           /\ done[Len(done)].before.players[x].winStreak = 2
           /\ players[x].winStreak = 0
           /\ players[x].loseStreak = 1
    /\ \E k \in AllBucketRefs :
           ~done[Len(done)].before.buckets[k].exists /\ buckets[k].wins = 1


\* ------------------------------------------------------------------ C31
\* This step is a whole addSimpleMatchResult or deleteMatch call of the
\* sequential caller, of a match that exists: generateStats has run once.
LiveStep ==
    /\ Len(done') = Len(done) + 1
    /\ done'[Len(done')].op \in {"add", "delete"}
    /\ done'[Len(done')].match.exists

\* The bucket document `after` is what create-or-merge makes of `before` with
\* the increments incs at the time timestamp.
CreatedOrMerged(before, after, ref, incs, timestamp) ==
    /\ after.exists
    /\ \A f \in BucketCounters : after[f] = before[f] + incs[f]
    /\ after.lastUpdatedAt = timestamp
    /\ IF before.exists
       THEN /\ after.firstActivityAt = before.firstActivityAt
            /\ after.playerId = before.playerId
            /\ after.timeframeId = before.timeframeId
            /\ after.periodType = before.periodType
       ELSE /\ \A f \in BucketCounters : after[f] = incs[f]
            /\ after.firstActivityAt = timestamp
            /\ after.playerId = ref[1]
            /\ after.periodType = ref[2]
            /\ after.timeframeId = ref[3]

\* C31: a bucket the transaction's read found absent is written as a new
\* document whose counters are the increments and whose firstActivityAt and
\* lastUpdatedAt are the operation timestamp; one it found present gets the
\* increment added to each of its nine counters and lastUpdatedAt set to the
\* operation timestamp, its firstActivityAt, playerId, timeframeId and
\* periodType staying as they were.
BucketCreateOrMerge ==
    [][LiveStep =>
          \E e \in {done'[Len(done')]} :
          \E ids \in {getTimePeriodIds(e.match.matchDate, hostTz)} :
              \A x \in Elems(AllPlayerIds(e.match)) :
              \E incs \in {calculateTimeBasedIncrements(
                               EntityMatchResult(x, e.match), e.match,
                               IF e.op = "add" THEN 1 ELSE -1)} :
                  \A k \in {BucketRef(x, "daily", ids.daily),
                            BucketRef(x, "weekly", ids.weekly)} :
                      CreatedOrMerged(buckets[k], buckets'[k], k, incs, now)]_vars

\* Half a day after a first match, a second match has been added for the same
\* day: "a"'s daily bucket, created by the first, keeps its firstActivityAt and
\* carries the later lastUpdatedAt, and the bucket of a participant new to the
\* day was created with both timestamps equal to the later time.
BucketCreateOrMergeWitness ==
    /\ Len(done) = 2
    /\ done[1].op = "add" /\ done[2].op = "add"
    /\ now = ClockStart + ClockStep
    /\ \E k \in AllBucketRefs :
           /\ done[2].before.buckets[k].exists
           /\ buckets[k].matchesPlayed = 2
           /\ buckets[k].firstActivityAt = ClockStart
           /\ buckets[k].lastUpdatedAt = now
    /\ \E k \in AllBucketRefs :
           /\ ~done[2].before.buckets[k].exists
           /\ buckets[k].matchesPlayed = 1
           /\ buckets[k].firstActivityAt = now
           /\ buckets[k].lastUpdatedAt = now


\* ------------------------------------------------------------------ C32
\* The two fields batchUpdateStreaks maintains.
StreakMaxima == {"highestWinStreak", "highestLoseStreak"}

\* This step ends caller p's batchUpdateStreaks: its batch has been committed
\* (or the commit was rejected).
StreakPassEnds(p) == pc[p] = "streakCommit" /\ pc'[p] # "streakCommit"

\* This step commits caller p's transaction: the writes generateStats staged
\* and the write of the match document.
TransactionCommits(p) == pc[p] = "txCommit" /\ tx'[p].status = "committed"

\* C32: batchUpdateStreaks changes no field of a player document other than
\* highestWinStreak and highestLoseStreak, changes no bucket document and no
\* match document, and leaves alone every player who is not in its list or
\* whose maxima, as read, already dominate the streaks; the writes of
\* generateStats never carry highestWinStreak or highestLoseStreak.
WriteOwnership ==
    [][\A p \in Procs :
          /\ StreakPassEnds(p) =>
                /\ buckets' = buckets
                /\ matches' = matches
                /\ \A x \in Players :
                      /\ \A f \in DOMAIN NewPlayerDoc \ StreakMaxima :
                             players'[x][f] = players[x][f]
                      /\ (\/ x \notin Elems(call[p].allPlayerIds)
                          \/ ~needsUpdate(streakSnap[p][x])) => players'[x] = players[x]
          /\ TransactionCommits(p) =>
                /\ \A x \in Players : \A f \in StreakMaxima :
                       players'[x][f] = players[x][f]
                /\ \A i \in 1..Len(TxWrites(p)) :
                       TxWrites(p)[i].kind = "mergePlayer" =>
                           \A f \in StreakMaxima : TxWrites(p)[i].data[f] = Keep]_vars

\* A streak pass has raised a player's highestWinStreak to the winStreak the
\* transaction before it had written, and players of the same match whose
\* maxima were already high enough were left alone.
WriteOwnershipWitness ==
    \E p \in Procs :
        /\ pc[p] = "addGet"
        /\ call[p].op = "add"
        /\ \E x \in Elems(call[p].allPlayerIds) :
               /\ players[x].winStreak = 1
               /\ players[x].highestWinStreak = 1
               /\ players[x].highestLoseStreak = 0
               /\ players[x].totalMatches = 1
        /\ \E x \in Elems(call[p].allPlayerIds) :
               /\ players[x].loseStreak = 1
               /\ players[x].highestLoseStreak = 1
               /\ players[x].highestWinStreak = 0


\* ------------------------------------------------------------------ C33
\* The matches of the log that player x took part in.
LogOf(x) == {i \in MatchIds : matches[i].exists /\ x \in Elems(AllPlayerIds(matches[i]))}

\* Match j of the log was played after match i (matchDate, then order of creation).
PlayedAfter(i, j) ==
    \/ matches[j].matchDate > matches[i].matchDate
    \/ matches[j].matchDate = matches[i].matchDate /\ j > i

\* Player x won (won = TRUE) or lost (won = FALSE) match i of the log.
Outcome(x, i, won) ==
    IF won THEN EntityMatchResult(x, matches[i]).didWin
    ELSE EntityMatchResult(x, matches[i]).didLose

\* Number of consecutive wins (losses) at the end of x's matches in the log.
TrailingRun(x, won) ==
    Cardinality({i \in LogOf(x) :
                    /\ Outcome(x, i, won)
                    /\ \A j \in LogOf(x) : PlayedAfter(i, j) => Outcome(x, j, won)})

\* C33: between calls, every player's winStreak (loseStreak) is the number of
\* consecutive wins (losses) at the end of the player's matches in the log,
\* ending at the most recent one, whatever adds (back-dated ones included) and
\* deletes came before.
StreakMeaning ==
    \A x \in Players :
        /\ players[x].winStreak = TrailingRun(x, TRUE)
        /\ players[x].loseStreak = TrailingRun(x, FALSE)


\* ------------------------------------------------------------------ C34
\* The aggregated documents of one period type the running request holds.
AggregatedDocs(periodType) ==
    {k \in AllBucketRefs : job.aggregates[k].exists /\ k[2] = periodType}

\* This step is a commitBatchIfNeeded of the running writer that has a batch to
\* commit (the commit succeeds or is rejected).
BatchIssued == job.phase \in {"daily", "weekly"} /\ job'.phase = job.phase /\ job' # job

\* This step is the return of a writer whose commits all succeeded.
WriterReturns ==
    /\ job.phase \in {"daily", "weekly"}
    /\ job'.phase # job.phase
    /\ ~job.rejected

\* C34: a writer never commits more than WRITE_BATCH_LIMIT operations in one
\* batch and never commits an empty batch; the documents still to be written
\* are distinct and a batch takes the next ones, so that each aggregated
\* document goes into exactly one batch; the count the writer returns is the
\* number of aggregated documents of its period type.
BackfillBatching ==
    /\ [](job.phase \in {"daily", "weekly"} =>
             /\ \A i, j \in 1..Len(job.queue) :
                    job.queue[i].ref = job.queue[j].ref => i = j
             /\ job.totalWrites + Len(job.queue) = Cardinality(AggregatedDocs(job.phase)))
    /\ [][/\ BatchIssued =>
                \E n \in 1..WriteBatchLimit :
                    /\ n <= Len(job.queue)
                    /\ job'.queue = SubSeq(job.queue, n + 1, Len(job.queue))
                    /\ job'.totalWrites = job.totalWrites + n
                    /\ \A k \in AllBucketRefs :
                           buckets'[k] # buckets[k] =>
                               \E i \in 1..n : /\ job.queue[i].ref = k
                                               /\ buckets'[k] = job.queue[i].data
          /\ WriterReturns =>
                /\ job.totalWrites = Cardinality(AggregatedDocs(job.phase))
                /\ \A k \in AggregatedDocs(job.phase) : buckets'[k].exists
                /\ job'.phase = "responded" =>
                       /\ job'.message[2] = Cardinality(AggregatedDocs("daily"))
                       /\ job'.message[3] = Cardinality(AggregatedDocs("weekly"))]_vars

\* A request over two matches has been answered 200 after each of its writers
\* wrote three documents, more than one batch holds: a full batch and a last
\* batch of one.
BackfillBatchingWitness ==
    /\ job.phase = "responded"
    /\ job.status = 200
    /\ job.message = <<2, 3, 3>>
    /\ WriteBatchLimit < 3
    /\ \A k \in AggregatedDocs("daily") : buckets[k] = FinalDoc(job.aggregates[k], k, job.nowISO)



\* ================================================ the backfill on a fixed log
\* Number of matches in the log the backfill pages through.
MaxLogLen == 3

\* The match documents of such a log.
PagingMatches ==
    {NewMatchData(t[1], t[2], s, d) :
        t \in BackfillTeams, s \in BackfillScores, d \in StoredDates}

\* The logs: every sequence of at most MaxLogLen of these matches, in the order
\* the matches were added (a later one may carry an earlier matchDate).
PagingLogs == UNION {[1..n -> PagingMatches] : n \in 0..MaxLogLen}

RECURSIVE StoreOfLog(_, _, _)
\* The store after addSimpleMatchResult has run for log[1..n], the matches
\* getting the ids FirstMatchId, FirstMatchId + 1, ...
StoreOfLog(log, n, tzHours) ==
    IF n = 0 THEN EmptyStore
    ELSE AddMatchSeq(StoreOfLog(log, n - 1, tzHours), FirstMatchId + n - 1, log[n], tzHours)

\* The service has recorded a log of matches; no call is in progress and none
\* will be made while the backfill runs.
InitPaging ==
    /\ hostTz \in HostTzOffsets
    /\ now = ClockStart
    /\ job = NoJob
    /\ \E log \in PagingLogs :
       \E st \in {StoreOfLog(log, Len(log), hostTz)} :
           /\ matches = st.matches
           /\ players = st.players
           /\ buckets = st.buckets
           /\ applied = [i \in MatchIds |->
                           IF st.matches[i].exists THEN FullyApplied(st.matches[i])
                           ELSE {}]
           /\ peak = [x \in Players |-> [win  |-> st.players[x].highestWinStreak,
                                         lose |-> st.players[x].highestLoseStreak]]
    /\ nextId = 1
    /\ pc = [p \in Procs |-> "idle"]
    /\ call = [p \in Procs |-> NoCall]
    /\ tx = [p \in Procs |-> NoTx]
    /\ streakSnap = [p \in Procs |-> <<>>]
    /\ streakErr = FALSE
    /\ calls = 0
    /\ faults = 0
    /\ done = <<>>

NextPaging ==
    \/ \E r \in RangeInputs : BackfillStart(r)
    \/ BackfillFetch
    \/ BackfillFetchFail
    \/ BackfillCommit
    \/ BackfillAwait

\* backfillTimeStats requests on a log nothing else changes; a query.get() that
\* has been issued resolves.
SpecPaging == InitPaging /\ [][NextPaging]_vars /\ WF_vars(BackfillFetch)

\* ------------------------------------------------------------------ C35
\* The matches of the log whose matchDate lies in the range of the request.
InRange ==
    {i \in MatchIds : /\ matches[i].exists
                      /\ matches[i].matchDate >= job.startDateIso
                      /\ matches[i].matchDate <= job.endDateIso}

\* This step ends the paging loop: the query returned an empty page.
PagingEnds == job.phase = "fetch" /\ job'.phase = "daily"

BackfillSucceeded == job.phase = "responded" /\ job.status = 200

\* The matches of the log that count into bucket k.
MatchesOfBucket(k) ==
    {i \in MatchIds : matches[i].exists /\ k \in refsToRead(matches[i], hostTz)}

RECURSIVE LogSum(_, _, _)
\* The sum of the +1 increments of counter f over the matches i, i + 1, ... of
\* the log that count into bucket k.
LogSum(k, f, i) ==
    IF i \notin MatchIds THEN 0
    ELSE (IF i \in MatchesOfBucket(k)
          THEN calculateTimeBasedIncrements(EntityMatchResult(k[1], matches[i]),
                                            matches[i], 1)[f]
          ELSE 0)
         + LogSum(k, f, i + 1)

\* C36: once a backfill over any range has completed on a store nothing else
\* changes, every daily and weekly bucket document it wrote holds, in each
\* counter, the sum of the +1 increments of all matches of the log that belong
\* to the bucket, which is what the live path had given it, also when only
\* part of the bucket's week lies in the range.
BackfillAgreesWithLive ==
    BackfillSucceeded =>
        \A k \in AllBucketRefs :
            job.aggregates[k].exists =>
                \A f \in BucketCounters :
                    /\ buckets[k][f] = LogSum(k, f, FirstMatchId)
                    /\ job.runs = 1 =>
                           done[job.entry].before.buckets[k][f] = LogSum(k, f, FirstMatchId)


\* ------------------------------------------------------------------ C37
\* The first backfill request is about to be answered 200, and a live call has
\* committed since the request was accepted: with this step both have finished.
LiveCallMeanwhile ==
    /\ job.phase = "weekly" /\ job.queue = <<>> /\ ~job.rejected
    /\ job.runs = 1
    /\ Len(done) > job.entry

\* Every counter of every bucket document is the sum of the +1 increments of
\* the matches in the log that belong to the bucket.
BucketsEqualLog ==
    \A k \in AllBucketRefs : \A f \in BucketCounters :
        buckets[k][f] = LogSum(k, f, FirstMatchId)

\* C37: when an addSimpleMatchResult or a deleteMatch has committed while a
\* backfill over a range holding the match's date was running, then once both
\* have finished every counter of every bucket document is still the sum of
\* the +1 increments of the matches in the log that belong to the bucket.
LiveUpdatesKept ==
    [][(LiveCallMeanwhile /\ BackfillSucceeded') => BucketsEqualLog]_vars


\* ------------------------------------------------------------------ C38
\* Caller p's delete transaction commits in this step.
DeleteCommits(p) == pc[p] = "txCommit" /\ call[p].op = "delete" /\ pc'[p] = "streakRead"

\* One match's worth of lifetime counter f for participant x of match m.
LifetimeWorth(m, x, f) ==
    Only({ IF inc.op = "inc" THEN inc.v ELSE 0 :
           inc \in {calculateMetrics(EntityMatchResult(x, m), m, 1)[f]} })

\* This step takes the increments of match m out of every participant's
\* lifetime counters and bucket counters, once, and out of nothing else.
ReversedOnce(m) ==
    /\ \A x \in Players : \A f \in LifetimeCounters :
           players'[x][f] = players[x][f]
                            - (IF x \in Elems(AllPlayerIds(m))
                               THEN LifetimeWorth(m, x, f)
                               ELSE 0)
    /\ \A k \in AllBucketRefs : \A f \in BucketCounters :
           buckets'[k][f] = buckets[k][f]
                            - (IF k \in refsToRead(m, hostTz)
                               THEN calculateTimeBasedIncrements(
                                        EntityMatchResult(k[1], m), m, 1)[f]
                               ELSE 0)

\* C38: when deleteMatch calls for the same existing match run concurrently,
\* the commit that finds the match takes one match's worth off each
\* participant's counters and removes the record, every other commit finds the
\* match gone and writes nothing, the record is absent once a call that found
\* it has returned, and no call throws unless a store request has failed.
ConcurrentDeletesReverseOnce ==
    /\ [](\A p \in Procs :
              call[p].op = "delete" =>
                  /\ pc[p] = "returned" /\ call[p].why = "" =>
                         ~matches[call[p].matchId].exists
                  /\ pc[p] = "threw" => faults > 0)
    /\ [][\A p \in Procs :
              DeleteCommits(p) =>
                  IF matches[call[p].matchId].exists
                  THEN /\ ReversedOnce(matches[call[p].matchId])
                       /\ ~matches'[call[p].matchId].exists
                  ELSE UNCHANGED <<matches, players, buckets>>]_vars

\* Both callers have deleted the same match and returned without error, one of
\* them after a conflict with the other's commit; the match is gone and every
\* counter is back at zero.
ConcurrentDeletesWitness ==
    /\ \E i \in MatchIds :
           /\ \A p \in Procs :
                  /\ pc[p] = "returned" /\ call[p].op = "delete"
                  /\ call[p].matchId = i /\ call[p].why = ""
                  /\ tx[p].status = "committed"
           /\ applied[i] = {}
    /\ \E p \in Procs : tx[p].attempt = 2
    /\ faults = 0
    /\ \A i \in MatchIds : ~matches[i].exists
    /\ \A x \in Players : players[x].totalMatches = 0
    /\ \E k \in AllBucketRefs : buckets[k].exists /\ buckets[k].matchesPlayed = 0


\* ------------------------------------------------------------------ C39
\* C39: whenever addSimpleMatchResult has thrown to its caller, the matches
\* collection holds no record for that call and no lifetime or bucket document
\* holds the increments of the call's match.
FailureMeansNothingPersisted ==
    \A p \in Procs :
        pc[p] = "threw" /\ call[p].op = "add" /\ call[p].matchId # 0 =>
            /\ ~matches[call[p].matchId].exists
            /\ applied[call[p].matchId] = {}


\* ------------------------------------------------------------------ C40
\* Every lifetime counter and every bucket counter is at least 0.
CountersNonNegative ==
    /\ \A x \in Players : \A f \in LifetimeCounters : players[x][f] >= 0
    /\ \A k \in AllBucketRefs : \A f \in BucketCounters : buckets[k][f] >= 0

\* C40: after any sequence of addSimpleMatchResult calls and deleteMatch calls
\* of matches that are in the log, every player's winStreak and loseStreak and
\* every lifetime and bucket counter is at least 0.
NonNegativeState ==
    /\ \A x \in Players : players[x].winStreak >= 0 /\ players[x].loseStreak >= 0
    /\ CountersNonNegative

====
